---- MODULE Spec2Model ----
(***************************************************************************)
(* Reliability envelope of the data-enrichment API:                        *)
(*   - billing.py : API-key accounts, checkout idempotency cache, webhook  *)
(*                  event de-duplication, over Redis or the in-process     *)
(*                  fallback store;                                        *)
(*   - main.py    : the HTTP endpoints that call billing and enrich_data;  *)
(*   - llm.py, tools.py : one enrich_data call, with its search retry      *)
(*                  loop, its model retry / fallback loop, its two         *)
(*                  deadlines and cancellation.                            *)
(* Time is a discrete clock.  Python's None is the string "None" for       *)
(* string-valued fields and 0 for API keys and checkout URLs; a Python str *)
(* that the code inspects is the sequence of its characters.               *)
(***************************************************************************)
EXTENDS Integers, Sequences, FiniteSets, TLC

(***************************************************************************)
(* Bounds of the model.                                                    *)
(***************************************************************************)
\* the clock stops advancing at MaxTime
MaxTime == 4
\* stripe.checkout.Session.create is called at most this many times
MaxProviderCalls == 2
\* the longest ANTHROPIC_FALLBACK_MODELS value tried, in characters
MaxEnvLen == 3
\* requests_used is followed up to this count
MaxRequestsUsed == 4
\* the largest attempt number the backoff delays are computed for
MaxAttemptNumber == 6

(***************************************************************************)
(* Program constants.  The two TTLs are read from the environment          *)
(* (billing.py:18-19); the model runs the configuration TTL = 2 and 3      *)
(* clock ticks.  The 30-day usage window and the plan quotas are scaled to *)
(* the clock and to small counters, keeping their order.                   *)
(***************************************************************************)
CHECKOUT_IDEMPOTENCY_TTL_SECONDS == 2
WEBHOOK_EVENT_TTL_SECONDS == 3
RESET_WINDOW == 3
QUOTA_FREE == 2
QUOTA_BASIC == 3
QUOTA_PRO == 4
QUOTA_ULTRA == 5
\* schemas.BatchEnrichmentRequest.items max_length, below the smallest quota
\* as in the source (10 items, 50 requests)
MAX_BATCH_ITEMS == 2

None == "None"
NoKey == 0
NoUrl == 0

Emails == {"a@x", "b@x"}
IdemKeys == {"k1", "k2"}
\* the idempotency_key argument: None, the empty string or a client token
IdemKeyArgs == IdemKeys \cup {None, ""}
\* plan names a caller may send; "gold" is in no table
PlanArgs == {"free", "basic", "pro", "gold"}

VARIABLES
  redis,          \* TRUE iff REDIS_URL is configured (billing.py:15)
  priceIds,       \* PLANS[p]["stripe_price_id"] for every plan of PLANS
  now,            \* datetime.utcnow()
  accounts,       \* api key -> key_data ("apikey:<key>" / _memory_store[key])
  emailIdx,       \* Redis "email:<email>" -> api key
  subIdx,         \* Redis "subscription:<id>" -> api key
  checkoutCache,  \* "idempotency:checkout:<key>" -> [checkout_url, expires_at]
  eventMarks,     \* "stripe:event:<id>" -> [expires_at]
  providerCalls,  \* number of stripe.checkout.Session.create calls so far
  rapidSecret,    \* os.getenv("RAPIDAPI_PROXY_SECRET")
  last,           \* what the most recent operation was given and answered
  ckPrev,         \* per idempotency key: the latest call that returned a URL
  ckWrite,        \* per idempotency key: the latest call that got its URL from
                  \* the provider
  whPrev,         \* per event id (per event type for the events without
                  \* id): the latest delivery that handle_webhook processed
                  \* (answered, and not as a duplicate)
  feed,           \* the webhook events the provider delivers in this run
  tasks,          \* per worker process: its billing call between the
                  \* idempotency read and the write that follows it
  run,            \* the enrich_data call in flight (llm.py, tools.py)
  faulty          \* the provider that may fail in this run: search or model

billingVars == <<redis, priceIds, rapidSecret, now, accounts, emailIdx, subIdx,
                 checkoutCache, eventMarks, providerCalls, last, ckPrev, ckWrite,
                 whPrev, feed, tasks>>

enrichVars == <<run>>

vars == <<billingVars, run, faulty>>

(***************************************************************************)
(* billing.py: the plan table.                                             *)
(***************************************************************************)
PlanNames == {"free", "basic", "pro", "ultra"}

requests_per_month(plan) ==
  CASE plan = "free"  -> QUOTA_FREE
    [] plan = "basic" -> QUOTA_BASIC
    [] plan = "pro"   -> QUOTA_PRO
    [] plan = "ultra" -> QUOTA_ULTRA

\* the environments the model runs: every paid price configured, or only
\* STRIPE_PRICE_BASIC
PriceConfigs ==
  { [p \in PlanNames |-> IF p = "free" THEN None ELSE "price_" \o p],
    [p \in PlanNames |-> IF p = "basic" THEN "price_basic" ELSE None] }

(***************************************************************************)
(* billing.py: the store.  One record `db` carries the account table and   *)
(* the two Redis indexes through the helpers.                              *)
(***************************************************************************)
Db == [acc |-> accounts, email |-> emailIdx, sub |-> subIdx]

Min(S) == CHOOSE x \in S : \A y \in S : x <= y

\* _get_key_data: Redis "apikey:<key>" or _memory_store.get(api_key)
get_key_data(db, api_key) ==
  IF api_key \in DOMAIN db.acc THEN <<db.acc[api_key]>> ELSE <<>>

\* _set_key_data: Redis also (re)writes the email index
set_key_data(db, api_key, data) ==
  LET acc2 == [k \in DOMAIN db.acc \cup {api_key} |->
                 IF k = api_key THEN data ELSE db.acc[k]]
  IN IF redis
       THEN [db EXCEPT !.acc = acc2,
                       !.email = [e \in DOMAIN db.email \cup {data.email} |->
                                    IF e = data.email THEN api_key ELSE db.email[e]]]
       ELSE [db EXCEPT !.acc = acc2]

\* defect: no account is ever found by its email
get_key_by_email_miss(db, email) == NoKey

\* _get_key_by_email: Redis index, else the first entry of the dict (keys are
\* numbered in insertion order) whose email matches
get_key_by_email(db, email) ==
  IF redis
    THEN IF email \in DOMAIN db.email THEN db.email[email] ELSE NoKey
    ELSE LET hits == {k \in DOMAIN db.acc : db.acc[k].email = email}
         IN IF hits = {} THEN NoKey ELSE Min(hits)

\* _get_key_by_subscription
get_key_by_subscription(db, subscription_id) ==
  IF redis
    THEN IF subscription_id \in DOMAIN db.sub THEN db.sub[subscription_id] ELSE NoKey
    ELSE LET hits == {k \in DOMAIN db.acc :
                        db.acc[k].stripe_subscription_id = subscription_id}
         IN IF hits = {} THEN NoKey ELSE Min(hits)

\* r.set(f"subscription:{id}", key) / r.delete(f"subscription:{id}")
sub_set(db, subscription_id, api_key) ==
  [db EXCEPT !.sub = [s \in DOMAIN db.sub \cup {subscription_id} |->
                        IF s = subscription_id THEN api_key ELSE db.sub[s]]]

sub_delete(db, subscription_id) ==
  [db EXCEPT !.sub = [s \in DOMAIN db.sub \ {subscription_id} |-> db.sub[s]]]

\* defect: the generated key is not fresh
generate_api_key_taken(db) == 1

\* generate_api_key: a key no account holds yet
generate_api_key(db) == Cardinality(DOMAIN db.acc) + 1

(***************************************************************************)
(* billing.py: TTL records.  The in-process store keeps expires_at and     *)
(* evicts on read when utcnow() > expires_at; Redis SETEX drops the key    *)
(* once the TTL has elapsed.                                               *)
(***************************************************************************)
\* defect: the record already counts as expired at expires_at
ttl_live_until(expires_at) ==
  IF redis THEN TRUE ELSE now < expires_at

\* the read-side check of a TTL record: the in-process store compares
\* utcnow() with expires_at; a key Redis still holds has not expired
ttl_live(expires_at) ==
  IF redis THEN TRUE ELSE ~(now > expires_at)

\* Redis' own expiry at time t: a key set with SETEX ttl at t0 is gone once
\* t >= t0 + ttl
redis_expire(f, t) == [x \in {y \in DOMAIN f : t < f[y].expires_at} |-> f[x]]

drop(f, k) == [x \in DOMAIN f \ {k} |-> f[x]]
put(f, k, v) == [x \in DOMAIN f \cup {k} |-> IF x = k THEN v ELSE f[x]]

\* _get_cached_checkout: the URL read and the cache after the read
get_cached_checkout(cache, idempotency_key) ==
  IF idempotency_key \notin DOMAIN cache
    THEN [url |-> NoUrl, cache |-> cache]
    ELSE IF ttl_live(cache[idempotency_key].expires_at)
           THEN [url |-> cache[idempotency_key].checkout_url, cache |-> cache]
           ELSE [url |-> NoUrl, cache |-> drop(cache, idempotency_key)]

\* _cache_checkout
\* defect: the URL is never written to the cache
cache_checkout_skipped(cache, idempotency_key, checkout_url) == cache

cache_checkout(cache, idempotency_key, checkout_url) ==
  put(cache, idempotency_key,
      [checkout_url |-> checkout_url,
       expires_at |-> now + CHECKOUT_IDEMPOTENCY_TTL_SECONDS])

\* defect: the dedup read never finds a marker
is_webhook_event_processed_never(marks, event_id) == [hit |-> FALSE, marks |-> marks]

\* _is_webhook_event_processed: the answer and the marks after the read
is_webhook_event_processed(marks, event_id) ==
  IF event_id \notin DOMAIN marks
    THEN [hit |-> FALSE, marks |-> marks]
    ELSE IF ttl_live(marks[event_id].expires_at)
           THEN [hit |-> TRUE, marks |-> marks]
           ELSE [hit |-> FALSE, marks |-> drop(marks, event_id)]

\* _mark_webhook_event_processed
\* defect: the processed marker is never written
mark_webhook_event_processed_skipped(marks, event_id) == marks

mark_webhook_event_processed(marks, event_id) ==
  put(marks, event_id, [expires_at |-> now + WEBHOOK_EVENT_TTL_SECONDS])

(***************************************************************************)
(* billing.py: accounts.                                                   *)
(***************************************************************************)
new_key_data(email, plan, customer_id, subscription_id) ==
  [email |-> email,
   plan |-> plan,
   requests_used |-> 0,
   requests_limit |-> requests_per_month(plan),
   resets_at |-> now + RESET_WINDOW,
   stripe_customer_id |-> customer_id,
   stripe_subscription_id |-> subscription_id]

\* create_free_api_key
create_free_api_key(db, email) ==
  LET existing_key == get_key_by_email(db, email)
  IN IF existing_key # NoKey
       THEN [api_key |-> existing_key, plan |-> db.acc[existing_key].plan,
             already_exists |-> TRUE, db |-> db]
       ELSE LET api_key == generate_api_key(db)
            IN [api_key |-> api_key, plan |-> "free", already_exists |-> FALSE,
                db |-> set_key_data(db, api_key, new_key_data(email, "free", None, None))]

\* defect: the window is over at resets_at already
reset_needed_at_deadline(key_data) == now >= key_data.resets_at

\* validate_api_key: `if datetime.utcnow() > resets_at`
reset_needed(key_data) == now > key_data.resets_at

\* validate_api_key: found = FALSE models the None answer
validate_api_key(db, api_key) ==
  IF get_key_data(db, api_key) = <<>>
    THEN [found |-> FALSE, valid |-> FALSE, error |-> "", plan |-> None,
          requests_remaining |-> 0, db |-> db]
    ELSE LET stored == db.acc[api_key]
             key_data == IF reset_needed(stored)
                           THEN [stored EXCEPT !.requests_used = 0,
                                               !.resets_at = now + RESET_WINDOW]
                           ELSE stored
             db2 == IF reset_needed(stored)
                      THEN set_key_data(db, api_key, key_data) ELSE db
         IN IF key_data.requests_used >= key_data.requests_limit
              THEN [found |-> TRUE, valid |-> FALSE, error |-> "rate_limit_exceeded",
                    plan |-> key_data.plan, requests_remaining |-> 0, db |-> db2]
              ELSE [found |-> TRUE, valid |-> TRUE, error |-> "",
                    plan |-> key_data.plan,
                    requests_remaining |->
                      key_data.requests_limit - key_data.requests_used,
                    db |-> db2]

\* increment_usage
increment_usage(db, api_key) ==
  IF get_key_data(db, api_key) = <<>>
    THEN db
    ELSE set_key_data(db, api_key,
           [db.acc[api_key] EXCEPT !.requests_used = @ + 1])

\* _upgrade_or_create_key.  PLANS[plan] raises KeyError for a plan that is in
\* no table; in the in-process store key_data is the stored dict itself, so
\* the assignment key_data["plan"] = plan made before the KeyError stays.
upgrade_or_create_key(db, email, plan, customer_id, subscription_id) ==
  LET existing_key == get_key_by_email(db, email)
  IN IF existing_key # NoKey
       THEN LET key_data == db.acc[existing_key]
                old_subscription == key_data.stripe_subscription_id
            IN IF plan \notin PlanNames
                 THEN [raised |-> "KeyError",
                       db |-> IF redis THEN db
                              ELSE [db EXCEPT !.acc[existing_key].plan = plan]]
                 ELSE LET data2 == [key_data EXCEPT
                                      !.plan = plan,
                                      !.requests_limit = requests_per_month(plan),
                                      !.stripe_customer_id = customer_id,
                                      !.stripe_subscription_id = subscription_id]
                          db2 == set_key_data(db, existing_key, data2)
                          db3 == IF redis /\ old_subscription # None
                                   THEN sub_delete(db2, old_subscription) ELSE db2
                      IN [raised |-> "",
                          db |-> IF redis
                                   THEN sub_set(db3, subscription_id, existing_key)
                                   ELSE db2]
       ELSE IF plan \notin PlanNames
              THEN [raised |-> "KeyError", db |-> db]
              ELSE LET api_key == generate_api_key(db)
                       db2 == set_key_data(db, api_key,
                                new_key_data(email, plan, customer_id, subscription_id))
                   IN [raised |-> "",
                       db |-> IF redis THEN sub_set(db2, subscription_id, api_key)
                              ELSE db2]

\* defect: the account goes back to the free plan but keeps its subscription id
downgrade_to_free_keeps_subscription(db, subscription_id) ==
  LET api_key == get_key_by_subscription(db, subscription_id)
  IN IF api_key = NoKey
       THEN db
       ELSE set_key_data(db, api_key,
              [db.acc[api_key] EXCEPT
                 !.plan = "free",
                 !.requests_limit = requests_per_month("free")])

\* _downgrade_to_free
downgrade_to_free(db, subscription_id) ==
  LET api_key == get_key_by_subscription(db, subscription_id)
  IN IF api_key = NoKey
       THEN db
       ELSE IF get_key_data(db, api_key) = <<>>
              THEN db
              ELSE LET db2 == set_key_data(db, api_key,
                                [db.acc[api_key] EXCEPT
                                   !.plan = "free",
                                   !.requests_limit = requests_per_month("free"),
                                   !.stripe_subscription_id = None])
                   IN IF redis THEN sub_delete(db2, subscription_id) ELSE db2

(***************************************************************************)
(* billing.py: create_checkout_session and handle_webhook.                 *)
(***************************************************************************)
\* Python truthiness of an Optional[str]: None and "" are false
\* defect: only None counts as "no key"
Truthy_not_none(x) == x # None

\* defect: a missing value passes the test
Truthy_always(x) == TRUE

Truthy(x) == x # None /\ x # ""

\* create_checkout_session.  stripe_ok says whether Session.create returns a
\* session; every session it returns is a new one, named by its call number.
\* First the part from the provider call on: Session.create, then the cache
\* write against the cache as it is at that moment.
\* defect: the cache is read again before the provider is called
create_checkout_session_create_rechecked(idempotency_key, stripe_ok, cache) ==
  IF idempotency_key \in DOMAIN cache
    THEN [raised |-> "", url |-> cache[idempotency_key].checkout_url,
          invoked |-> 0, cache |-> cache]
    ELSE [raised |-> IF stripe_ok THEN "" ELSE "StripeError",
          url |-> IF stripe_ok THEN providerCalls + 1 ELSE NoUrl,
          invoked |-> 1,
          cache |-> IF stripe_ok
                      THEN put(cache, idempotency_key,
                               [checkout_url |-> providerCalls + 1,
                                expires_at |-> now + CHECKOUT_IDEMPOTENCY_TTL_SECONDS])
                      ELSE cache]

\* defect: the cache entry is written before the provider call, so a call
\* that raises leaves an entry without URL behind
create_checkout_session_create_cached_first(idempotency_key, stripe_ok, cache) ==
  LET session_url == IF stripe_ok THEN providerCalls + 1 ELSE NoUrl
  IN [raised |-> IF stripe_ok THEN "" ELSE "StripeError",
      url |-> session_url, invoked |-> 1,
      cache |-> IF Truthy(idempotency_key)
                  THEN cache_checkout(cache, idempotency_key, session_url)
                  ELSE cache]

create_checkout_session_create(idempotency_key, stripe_ok, cache) ==
  LET out == [raised |-> "", url |-> NoUrl, invoked |-> 1, cache |-> cache]
      session_url == providerCalls + 1
  IN IF ~stripe_ok
       THEN [out EXCEPT !.raised = "StripeError"]
       ELSE [out EXCEPT
               !.url = session_url,
               !.cache = IF Truthy(idempotency_key)
                           THEN cache_checkout(cache, idempotency_key, session_url)
                           ELSE cache]

\* create_checkout_session up to the provider call: the plan and price checks
\* and the cache lookup.  miss says the call goes on to the provider.
create_checkout_session_lookup(plan, idempotency_key) ==
  LET out == [raised |-> "", url |-> NoUrl, miss |-> FALSE, cache |-> checkoutCache]
  IN IF plan \notin PlanNames \/ plan = "free"
       THEN [out EXCEPT !.raised = "ValueError"]
       ELSE IF ~Truthy(priceIds[plan])
              THEN [out EXCEPT !.raised = "ValueError"]
              ELSE LET rd == IF Truthy(idempotency_key)
                               THEN get_cached_checkout(checkoutCache, idempotency_key)
                               ELSE [url |-> NoUrl, cache |-> checkoutCache]
                   IN IF Truthy(idempotency_key) /\ rd.url # NoUrl
                        THEN [out EXCEPT !.url = rd.url, !.cache = rd.cache]
                        ELSE [out EXCEPT !.miss = TRUE, !.cache = rd.cache]

\* defect: the cache is read before the plan is checked
create_checkout_session_lookup_first(email, plan, idempotency_key, stripe_ok) ==
  LET out == [raised |-> "", url |-> NoUrl, invoked |-> 0, cache |-> checkoutCache]
      rd == IF Truthy(idempotency_key)
              THEN get_cached_checkout(checkoutCache, idempotency_key)
              ELSE [url |-> NoUrl, cache |-> checkoutCache]
  IN IF Truthy(idempotency_key) /\ rd.url # NoUrl
       THEN [out EXCEPT !.url = rd.url, !.cache = rd.cache]
       ELSE IF plan \notin PlanNames \/ plan = "free"
              THEN [out EXCEPT !.raised = "ValueError", !.cache = rd.cache]
              ELSE IF ~Truthy(priceIds[plan])
                     THEN [out EXCEPT !.raised = "ValueError", !.cache = rd.cache]
                     ELSE create_checkout_session_create(
                            idempotency_key, stripe_ok, rd.cache)

\* the whole call, when nothing else runs between its lookup and its write
create_checkout_session(email, plan, idempotency_key, stripe_ok) ==
  LET out == [raised |-> "", url |-> NoUrl, invoked |-> 0, cache |-> checkoutCache]
  IN IF plan \notin PlanNames \/ plan = "free"
       THEN [out EXCEPT !.raised = "ValueError"]
       ELSE IF ~Truthy(priceIds[plan])
              THEN [out EXCEPT !.raised = "ValueError"]
              ELSE LET rd == IF Truthy(idempotency_key)
                               THEN get_cached_checkout(checkoutCache, idempotency_key)
                               ELSE [url |-> NoUrl, cache |-> checkoutCache]
                   IN IF Truthy(idempotency_key) /\ rd.url # NoUrl
                        THEN [out EXCEPT !.url = rd.url, !.cache = rd.cache]
                        ELSE create_checkout_session_create(
                               idempotency_key, stripe_ok, rd.cache)

\* The webhook events the provider delivers.  An event id names one event, so
\* two deliveries with the same id carry the same content.
EvCompleted == "checkout.session.completed"
EvDeleted == "customer.subscription.deleted"

Events ==
  { [id |-> "evt1", type |-> EvCompleted, customer_email |-> "a@x",
     metadata_email |-> "a@x", plan |-> "basic", customer |-> "cus1",
     subscription |-> "sub1"],
    [id |-> "evt2", type |-> EvDeleted, customer_email |-> None,
     metadata_email |-> None, plan |-> None, customer |-> None,
     subscription |-> "sub1"],
    [id |-> "evt3", type |-> "invoice.paid", customer_email |-> None,
     metadata_email |-> None, plan |-> None, customer |-> None,
     subscription |-> None],
    [id |-> "evt4", type |-> EvCompleted, customer_email |-> None,
     metadata_email |-> "a@x", plan |-> "gold", customer |-> "cus1",
     subscription |-> "sub2"],
    [id |-> "evt5", type |-> EvCompleted, customer_email |-> "b@x",
     metadata_email |-> None, plan |-> None, customer |-> "cus2",
     subscription |-> "sub2"],
    [id |-> None, type |-> EvCompleted, customer_email |-> "b@x",
     metadata_email |-> "b@x", plan |-> "pro", customer |-> "cus2",
     subscription |-> "sub2"],
    [id |-> None, type |-> EvDeleted, customer_email |-> None,
     metadata_email |-> None, plan |-> None, customer |-> None,
     subscription |-> "sub2"] }

\* what stripe.Webhook.construct_event does with the payload and signature
Constructs == {"event", "ValueError", "SignatureVerificationError"}

\* handle_webhook.  handler counts the calls of _upgrade_or_create_key and
\* _downgrade_to_free made by this delivery.
\* First the part after the dedup check: the branch on the event type and
\* the processed marker, against the store as it is at that moment.
handle_webhook_dispatch(event, db, marks) ==
  LET out == [error |-> "", status |-> "", reason |-> "", raised |-> "",
              handler |-> 0, db |-> db, marks |-> marks]
      event_id == event.id
      marked == IF Truthy(event_id)
                  THEN mark_webhook_event_processed(marks, event_id)
                  ELSE marks
  IN IF event.type = EvCompleted
       THEN LET email == IF Truthy(event.customer_email)
                           THEN event.customer_email ELSE event.metadata_email
                plan == event.plan
            IN IF Truthy(email) /\ Truthy(plan)
                 THEN LET up == upgrade_or_create_key(db, email, plan,
                                  event.customer, event.subscription)
                      IN IF up.raised # ""
                           THEN [out EXCEPT !.raised = up.raised, !.handler = 1,
                                            !.db = up.db]
                           ELSE [out EXCEPT !.status = "success", !.handler = 1,
                                            !.db = up.db, !.marks = marked]
                 ELSE [out EXCEPT !.status = "success", !.marks = marked]
     ELSE IF event.type = EvDeleted
       THEN [out EXCEPT !.status = "success", !.handler = 1,
                        !.db = downgrade_to_free(db, event.subscription),
                        !.marks = marked]
     ELSE [out EXCEPT !.status = "ignored", !.marks = marked]

handle_webhook(event, construct) ==
  LET out == [error |-> "", status |-> "", reason |-> "", raised |-> "",
              handler |-> 0, db |-> Db, marks |-> eventMarks]
      event_id == event.id
      chk == IF Truthy(event_id)
               THEN is_webhook_event_processed(eventMarks, event_id)
               ELSE [hit |-> FALSE, marks |-> eventMarks]
  IN IF construct = "ValueError"
       THEN [out EXCEPT !.error = "Invalid payload"]
     ELSE IF construct = "SignatureVerificationError"
       THEN [out EXCEPT !.error = "Invalid signature"]
     ELSE IF Truthy(event_id) /\ chk.hit
       THEN [out EXCEPT !.status = "ignored", !.reason = "duplicate_event",
                        !.marks = chk.marks]
     ELSE handle_webhook_dispatch(event, Db, chk.marks)

(***************************************************************************)
(* What an operation was given and what it answered (observation only).    *)
(***************************************************************************)
NoOp ==
  [op |-> "init", email |-> None, plan |-> None,
   valid_plan |-> FALSE,  \* the plan argument is a paid plan with a price id
   hdr |-> None,          \* the request's Idempotency-Key header
   idem |-> None,         \* the idempotency_key create_checkout_session received
   calls |-> 0,           \* calls of create_checkout_session made
   raised |-> "",         \* exception the billing function raised
   url |-> NoUrl, invoked |-> 0,
   \* the previous URL-returning call with the same key, and the latest
   \* earlier call with that key whose URL came from the provider (t = -1: none)
   prev_url |-> NoUrl, prev_t |-> -1, prev_invoked |-> 0,
   write_url |-> NoUrl, write_t |-> -1,
   \* the email and plan of the call that obtained write_url
   write_email |-> None, write_plan |-> None,
   \* the latest earlier delivery of the same event id that was processed
   \* (prev_status "": none); for an event without id, prev_handler and
   \* prev_wh_t tell of the latest earlier delivery of that event
   prev_status |-> "", prev_handler |-> 0, prev_wh_t |-> -1,
   event_id |-> None, etype |-> None, status |-> "", reason |-> "",
   error |-> "", handler |-> 0,
   \* for a subscription-deleted event: its subscription id, and how many
   \* accounts held that id when the call began
   subscription |-> None, sub_owners |-> 0,
   api_key |-> NoKey, outcome |-> "", started |-> FALSE,
   \* the X-RapidAPI-Proxy-Secret header, the number of items of the request
   \* and the number of items whose enrichment succeeded
   secret |-> None, items |-> 0, successful |-> 0,
   \* requests_used and resets_at of the request's account when the call began
   \* (resets_before = -1: the key is no account's)
   used_before |-> 0, resets_before |-> -1,
   http |-> 0, detail_error |-> "", retry_after |-> 0]

storeVars == <<accounts, emailIdx, subIdx, checkoutCache, eventMarks>>
configVars == <<redis, priceIds, rapidSecret, feed, faulty>>

\* the observer's record of the account a request names
AccountSeen(base, api_key) ==
  IF api_key \in DOMAIN accounts
    THEN [base EXCEPT !.used_before = accounts[api_key].requests_used,
                      !.resets_before = accounts[api_key].resets_at]
    ELSE base

SetDb(db) ==
  /\ accounts' = db.acc
  /\ emailIdx' = db.email
  /\ subIdx' = db.sub

histVars == <<ckPrev, ckWrite, whPrev>>

\* a plan create_checkout_session accepts: in PLANS, not free, price configured
ValidPaidPlan(plan) ==
  plan \in PlanNames /\ plan # "free" /\ Truthy(priceIds[plan])

\* the observer's record of a create_checkout_session call
ObserveCheckout(r, idempotency_key, email, plan) ==
  IF r.raised = "" /\ idempotency_key \in IdemKeys
    THEN /\ ckPrev' = put(ckPrev, idempotency_key,
                          [url |-> r.url, t |-> now, invoked |-> r.invoked])
         /\ ckWrite' = IF r.invoked = 1
                         THEN put(ckWrite, idempotency_key,
                                  [url |-> r.url, t |-> now,
                                   email |-> email, plan |-> plan])
                         ELSE ckWrite
    ELSE UNCHANGED <<ckPrev, ckWrite>>

CheckoutSeen(base, r, idempotency_key) ==
  LET a == IF idempotency_key \in DOMAIN ckPrev
             THEN [base EXCEPT !.prev_url = ckPrev[idempotency_key].url,
                               !.prev_t = ckPrev[idempotency_key].t,
                               !.prev_invoked = ckPrev[idempotency_key].invoked]
             ELSE base
  IN IF idempotency_key \in DOMAIN ckWrite
       THEN [a EXCEPT !.write_url = ckWrite[idempotency_key].url,
                      !.write_email = ckWrite[idempotency_key].email,
                      !.write_plan = ckWrite[idempotency_key].plan,
                      !.write_t = ckWrite[idempotency_key].t]
       ELSE a

CheckoutBudget == providerCalls < MaxProviderCalls

(***************************************************************************)
(* Operations.                                                             *)
(***************************************************************************)
\* the clock advances; Redis expires the keys whose TTL has elapsed
Tick ==
  /\ now < MaxTime
  /\ now' = now + 1
  /\ checkoutCache' = IF redis THEN redis_expire(checkoutCache, now + 1)
                      ELSE checkoutCache
  /\ eventMarks' = IF redis THEN redis_expire(eventMarks, now + 1) ELSE eventMarks
  /\ last' = [NoOp EXCEPT !.op = "tick"]
  /\ UNCHANGED <<enrichVars, configVars, tasks, accounts, emailIdx, subIdx, providerCalls, histVars>>

\* a direct call of billing.create_checkout_session with one of these keys;
\* whose tells whether the observer also keeps the email and the plan of the
\* call
CheckoutCall(keys, whose) ==
  \E email \in Emails, plan \in PlanArgs, key \in keys, stripe_ok \in BOOLEAN :
    LET r == create_checkout_session(email, plan, key, stripe_ok)
        seen_email == IF whose THEN email ELSE None
        seen_plan == IF whose THEN plan ELSE None
    IN /\ CheckoutBudget
       /\ checkoutCache' = r.cache
       /\ providerCalls' = providerCalls + r.invoked
       /\ ObserveCheckout(r, key, seen_email, seen_plan)
       /\ last' = CheckoutSeen(
                    [NoOp EXCEPT !.op = "create_checkout_session",
                                 !.email = seen_email, !.plan = seen_plan,
                                 !.valid_plan = ValidPaidPlan(plan),
                                 !.idem = key, !.calls = 1,
                                 !.raised = r.raised, !.url = r.url,
                                 !.invoked = r.invoked], r, key)
       /\ UNCHANGED <<enrichVars, configVars, tasks, now, accounts, emailIdx, subIdx, eventMarks, whPrev>>

CallCreateCheckoutSession == CheckoutCall(IdemKeyArgs, FALSE)
\* calls of several clients with a client token as key
CallCreateCheckoutSessionWithKey == CheckoutCall(IdemKeys, TRUE)

\* the API keys a client may send: none, the keys of the store, a key of no one
ApiKeyArgs == 0 .. (Cardinality(Emails) + 1)

\* POST /api/v1/register
register_endpoint ==
  \E email \in Emails :
    LET r == create_free_api_key(Db, email)
    IN /\ SetDb(r.db)
       \* billing.PLANS[result["plan"]] raises KeyError for a stored plan that
       \* is in no table
       /\ last' = [NoOp EXCEPT !.op = "register_endpoint", !.email = email,
                               !.plan = r.plan, !.api_key = r.api_key,
                               !.raised = IF r.plan \in PlanNames THEN ""
                                          ELSE "KeyError",
                               !.http = IF r.plan \in PlanNames THEN 200 ELSE 500]
       /\ UNCHANGED <<enrichVars, configVars, tasks, now, checkoutCache, eventMarks, providerCalls,
                      histVars>>

\* POST /api/v1/checkout.  The handler takes the JSON body only: it declares
\* no header parameter and calls create_checkout_session without
\* idempotency_key, which then defaults to None.
checkout_endpoint ==
  \E email \in Emails, plan \in PlanArgs, hdr \in IdemKeyArgs, stripe_ok \in BOOLEAN :
    IF plan \notin {"basic", "pro", "ultra"}
      THEN /\ last' = [NoOp EXCEPT !.op = "checkout_endpoint",
                                   !.hdr = hdr, !.http = 400]
           /\ UNCHANGED <<enrichVars, configVars, tasks, now, storeVars, providerCalls, histVars>>
      ELSE LET r == create_checkout_session(email, plan, None, stripe_ok)
           IN /\ CheckoutBudget
              /\ checkoutCache' = r.cache
              /\ providerCalls' = providerCalls + r.invoked
              /\ ObserveCheckout(r, None, None, None)
              /\ last' = CheckoutSeen(
                           [NoOp EXCEPT
                              !.op = "checkout_endpoint",
                              !.valid_plan = ValidPaidPlan(plan),
                              !.hdr = hdr, !.idem = None, !.calls = 1,
                              !.raised = r.raised, !.url = r.url,
                              !.invoked = r.invoked,
                              !.http = IF r.raised = "" THEN 200
                                       ELSE IF r.raised = "ValueError" THEN 400
                                       ELSE 500], r, None)
              /\ UNCHANGED <<enrichVars, configVars, tasks, now, accounts, emailIdx, subIdx,
                             eventMarks, whPrev>>

\* POST /api/v1/webhook: billing.handle_webhook and the answer built from it
stripe_webhook ==
  \E event \in feed, construct \in Constructs :
    LET r == handle_webhook(event, construct)
        answered == r.status # "" /\ Truthy(event.id)
        processed == answered /\ r.reason # "duplicate_event"
        seen == [NoOp EXCEPT
                   !.op = "stripe_webhook", !.event_id = event.id,
                   !.etype = event.type, !.status = r.status,
                   !.reason = r.reason, !.error = r.error, !.raised = r.raised,
                   !.handler = r.handler,
                   !.subscription = IF event.type = EvDeleted
                                      THEN event.subscription ELSE None,
                   !.sub_owners =
                     IF event.type = EvDeleted
                       THEN Cardinality({k \in DOMAIN accounts :
                              accounts[k].stripe_subscription_id = event.subscription})
                       ELSE 0,
                   !.http = IF r.raised # "" THEN 500
                            ELSE IF r.error # "" THEN 400 ELSE 200]
    IN /\ SetDb(r.db)
       /\ eventMarks' = r.marks
       /\ whPrev' = IF processed
                      THEN put(whPrev, event.id,
                               [status |-> r.status, handler |-> r.handler,
                                t |-> now])
                    ELSE IF r.status # "" /\ ~Truthy(event.id)
                      THEN put(whPrev, event.type,
                               [status |-> r.status, handler |-> r.handler,
                                t |-> now])
                    ELSE whPrev
       /\ last' = IF answered /\ event.id \in DOMAIN whPrev
                    THEN [seen EXCEPT !.prev_status = whPrev[event.id].status,
                                      !.prev_handler = whPrev[event.id].handler,
                                      !.prev_wh_t = whPrev[event.id].t]
                  ELSE IF r.status # "" /\ ~Truthy(event.id)
                          /\ event.type \in DOMAIN whPrev
                    THEN [seen EXCEPT !.prev_handler = whPrev[event.type].handler,
                                      !.prev_wh_t = whPrev[event.type].t]
                    ELSE seen
       /\ UNCHANGED <<enrichVars, configVars, tasks, now, checkoutCache, providerCalls, ckPrev, ckWrite>>

(***************************************************************************)
(* main.py: POST /api/v1/enrich.                                           *)
(***************************************************************************)
\* how a call of llm.enrich_data ends, as seen by its caller
EnrichOutcomes ==
  {"result", "ValueError", "UpstreamServiceUnavailableError",
   "EnrichmentTimeoutError", "Exception"}

\* verify_rapidapi_secret
verify_rapidapi_secret(x_rapidapi_proxy_secret) ==
  IF Truthy(rapidSecret) /\ x_rapidapi_proxy_secret # rapidSecret
    THEN FALSE ELSE TRUE

\* the answer to an exception that leaves `await enrich_data(request)`:
\* `except ValueError` answers 400; everything else reaches
\* global_exception_handler, which answers 500 with a plain detail
enrich_response(outcome) ==
  IF outcome = "result"
    THEN [http |-> 200, detail_error |-> "", retry_after |-> 0]
  ELSE IF outcome = "ValueError"
    THEN [http |-> 400, detail_error |-> "", retry_after |-> 0]
  ELSE [http |-> 500, detail_error |-> "", retry_after |-> 0]

SecretArgs == {None, "s3cret", "wrong"}

enrich_endpoint ==
  \E x_api_key \in ApiKeyArgs, x_secret \in SecretArgs, outcome \in EnrichOutcomes :
    LET base == AccountSeen(
                  [NoOp EXCEPT !.op = "enrich_endpoint", !.api_key = x_api_key,
                               !.secret = x_secret, !.items = 1], x_api_key)
        validation == validate_api_key(Db, x_api_key)
        rsp == enrich_response(outcome)
        ran == [base EXCEPT !.started = TRUE, !.outcome = outcome,
                            !.successful = IF outcome = "result" THEN 1 ELSE 0,
                            !.http = rsp.http,
                            !.detail_error = rsp.detail_error,
                            !.retry_after = rsp.retry_after]
    IN /\ IF verify_rapidapi_secret(x_secret)
            THEN /\ last' = ran
                 /\ UNCHANGED <<accounts, emailIdx, subIdx>>
          ELSE IF x_api_key # NoKey
            THEN IF ~validation.found
                   THEN /\ last' = [base EXCEPT !.http = 401]
                        /\ SetDb(validation.db)
                 ELSE IF ~validation.valid
                   THEN /\ last' = [base EXCEPT
                                      !.http = IF validation.error = "rate_limit_exceeded"
                                               THEN 429 ELSE 401]
                        /\ SetDb(validation.db)
                 ELSE /\ last' = ran
                      /\ SetDb(increment_usage(validation.db, x_api_key))
          ELSE /\ last' = [base EXCEPT !.http = 401]
               /\ UNCHANGED <<accounts, emailIdx, subIdx>>
       /\ UNCHANGED <<enrichVars, configVars, tasks, now, checkoutCache, eventMarks, providerCalls,
                      histVars>>

\* `for _ in request.items: billing.increment_usage(x_api_key)`
RECURSIVE increment_usage_each(_, _, _)
increment_usage_each(db, api_key, items) ==
  IF items = 0 THEN db
  ELSE increment_usage_each(increment_usage(db, api_key), api_key, items - 1)

\* POST /api/v1/enrich/batch.  process_item turns every Exception of
\* enrich_data into an unsuccessful result, so the answer is 200 with
\* `successful` of the items enriched; usage is incremented after the items
\* were processed, whenever the request carries an X-API-Key.
batch_enrich_endpoint ==
  \E x_api_key \in ApiKeyArgs, x_secret \in SecretArgs,
     items \in 1..MAX_BATCH_ITEMS :
    \E successful \in 0..items :
      LET base == AccountSeen(
                    [NoOp EXCEPT !.op = "batch_enrich_endpoint",
                                 !.api_key = x_api_key, !.secret = x_secret,
                                 !.items = items], x_api_key)
          validation == validate_api_key(Db, x_api_key)
          ran == [base EXCEPT !.started = TRUE, !.successful = successful,
                              !.http = 200]
      IN /\ \A k \in DOMAIN accounts :
              accounts[k].requests_used + items <= MaxRequestsUsed
         /\ IF verify_rapidapi_secret(x_secret)
              THEN /\ last' = ran
                   /\ SetDb(IF x_api_key # NoKey
                              THEN increment_usage_each(Db, x_api_key, items)
                              ELSE Db)
            ELSE IF x_api_key # NoKey
              THEN IF ~validation.found
                     THEN /\ last' = [base EXCEPT !.http = 401]
                          /\ SetDb(validation.db)
                   ELSE IF ~validation.valid
                     THEN /\ last' = [base EXCEPT
                                        !.http = IF validation.error = "rate_limit_exceeded"
                                                 THEN 429 ELSE 401]
                          /\ SetDb(validation.db)
                   ELSE IF validation.requests_remaining < items
                     THEN /\ last' = [base EXCEPT !.http = 429]
                          /\ SetDb(validation.db)
                   ELSE /\ last' = ran
                        /\ SetDb(increment_usage_each(validation.db, x_api_key, items))
            ELSE /\ last' = [base EXCEPT !.http = 401]
                 /\ UNCHANGED <<accounts, emailIdx, subIdx>>
         /\ UNCHANGED <<enrichVars, configVars, tasks, now, checkoutCache, eventMarks,
                        providerCalls, histVars>>

(***************************************************************************)
(* Text.  A Python str is the sequence of its characters, so that lower(), *)
(* startswith(), `in`, split() and strip() are computed on the characters. *)
(***************************************************************************)
UPPERCASE ==
  <<"A", "B", "C", "D", "E", "F", "G", "H", "I", "J", "K", "L", "M", "N",
    "O", "P", "Q", "R", "S", "T", "U", "V", "W", "X", "Y", "Z">>
LOWERCASE ==
  <<"a", "b", "c", "d", "e", "f", "g", "h", "i", "j", "k", "l", "m", "n",
    "o", "p", "q", "r", "s", "t", "u", "v", "w", "x", "y", "z">>

lower_char(c) ==
  IF \E i \in 1..Len(UPPERCASE) : UPPERCASE[i] = c
    THEN LOWERCASE[CHOOSE i \in 1..Len(UPPERCASE) : UPPERCASE[i] = c]
    ELSE c

\* str.lower()
lower(s) == [i \in 1..Len(s) |-> lower_char(s[i])]

\* str.startswith(p)
startswith(s, p) == Len(s) >= Len(p) /\ SubSeq(s, 1, Len(p)) = p

\* p in s
contains(s, p) ==
  \E i \in 1..(Len(s) - Len(p) + 1) : SubSeq(s, i, i + Len(p) - 1) = p

DIGITS == <<"0", "1", "2", "3", "4", "5", "6", "7", "8", "9">>

\* str(n) of a natural number
RECURSIVE str_int(_)
str_int(n) ==
  IF n < 10 THEN <<DIGITS[n + 1]>>
  ELSE str_int(n \div 10) \o <<DIGITS[(n % 10) + 1]>>

\* 2 ** n
RECURSIVE pow2(_)
pow2(n) == IF n = 0 THEN 1 ELSE 2 * pow2(n - 1)

(***************************************************************************)
(* Exceptions.  A raised exception is its class, the HTTP status it        *)
(* carries (0 when it carries none) and its message; isinstance follows    *)
(* the class hierarchies of asyncio, httpx, anthropic and instructor.      *)
(***************************************************************************)
NoText == <<>>
NoError == [type |-> "None", status |-> 0, msg |-> NoText]
Exc(type) == [type |-> type, status |-> 0, msg |-> NoText]
StatusExc(type, status) == [type |-> type, status |-> status, msg |-> NoText]
MsgExc(type, msg) == [type |-> type, status |-> 0, msg |-> msg]

bases(type) ==
  CASE type = "CancelledError" -> {"CancelledError", "BaseException"}
    [] type = "TimeoutError" -> {"TimeoutError", "Exception", "BaseException"}
    [] type \in {"ReadTimeout", "ConnectTimeout"} ->
         {type, "TimeoutException", "TransportError", "Exception", "BaseException"}
    [] type \in {"ConnectError", "ReadError"} ->
         {type, "NetworkError", "TransportError", "Exception", "BaseException"}
    [] type = "RemoteProtocolError" ->
         {type, "TransportError", "Exception", "BaseException"}
    [] type = "HTTPStatusError" -> {type, "Exception", "BaseException"}
    [] type = "APITimeoutError" ->
         {type, "APIConnectionError", "APIError", "Exception", "BaseException"}
    [] type = "APIConnectionError" ->
         {type, "APIError", "Exception", "BaseException"}
    [] type \in {"RateLimitError", "InternalServerError", "BadRequestError",
                 "ConflictError"} ->
         {type, "APIStatusError", "APIError", "Exception", "BaseException"}
    [] type = "APIStatusError" -> {type, "APIError", "Exception", "BaseException"}
    [] OTHER -> {type, "Exception", "BaseException"}

isinstance(exc, classes) == bases(exc.type) \cap classes # {}

(***************************************************************************)
(* tools.py: the search tools.  The retry constants are read from the      *)
(* environment (tools.py:13-16); the model runs 3 attempts, a backoff base *)
(* and a jitter of one tick, and a request timeout of two ticks.           *)
(***************************************************************************)
SERPER_TIMEOUT_SECONDS == 2
SERPER_RETRY_ATTEMPTS == 3
SERPER_BACKOFF_BASE_SECONDS == 1
SERPER_BACKOFF_JITTER_SECONDS == 1
SERPER_RETRYABLE_STATUS_CODES == {408, 425, 429, 500, 502, 503, 504}

MSG_NOT_FOUND ==
  <<"E", "r", "r", "o", "r", ":", " ", "R", "e", "s", "o", "u", "r", "c",
    "e", " ", "n", "o", "t", " ", "f", "o", "u", "n", "d", ".", " ", "C",
    "h", "e", "c", "k", " ", "t", "h", "e", " ", "q", "u", "e", "r", "y",
    ".">>
MSG_RATE_LIMIT ==
  <<"E", "r", "r", "o", "r", ":", " ", "R", "a", "t", "e", " ", "l", "i",
    "m", "i", "t", " ", "e", "x", "c", "e", "e", "d", "e", "d", ".", " ",
    "R", "e", "t", "r", "y", " ", "l", "a", "t", "e", "r", ".">>
MSG_STATUS ==
  <<"E", "r", "r", "o", "r", ":", " ", "A", "P", "I", " ", "r", "e", "t",
    "u", "r", "n", "e", "d", " ", "s", "t", "a", "t", "u", "s", " ">>
MSG_TIMED_OUT ==
  <<"E", "r", "r", "o", "r", ":", " ", "R", "e", "q", "u", "e", "s", "t",
    " ", "t", "i", "m", "e", "d", " ", "o", "u", "t", ".", " ", "R", "e",
    "t", "r", "y", ".">>
MSG_ERROR ==
  <<"E", "r", "r", "o", "r", ":", " ">>
MSG_NO_RESULTS_COMPANY ==
  <<"N", "o", " ", "r", "e", "s", "u", "l", "t", "s", " ", "f", "o",
    "u", "n", "d", " ", "f", "o", "r", " ", "c", "o", "m", "p", "a",
    "n", "y", ":", " ">>
MSG_NO_RESULTS ==
  <<"N", "o", " ", "r", "e", "s", "u", "l", "t", "s", " ", "f", "o",
    "u", "n", "d", " ", "f", "o", "r", ":", " ">>
MSG_RESULTS ==
  <<"T", "i", "t", "l", "e", ":", " ", "t", "\n", "U", "R", "L", ":", " ",
    "u", "\n", "D", "e", "s", "c", "r", "i", "p", "t", "i", "o", "n", ":",
    " ", "d", "\n">>

\* type(e).__name__
type_name(e) ==
  CASE e.type = "ReadTimeout" ->
         <<"R", "e", "a", "d", "T", "i", "m", "e", "o", "u", "t">>
    [] e.type = "ConnectTimeout" ->
         <<"C", "o", "n", "n", "e", "c", "t", "T", "i", "m", "e", "o", "u",
           "t">>
    [] e.type = "ConnectError" ->
         <<"C", "o", "n", "n", "e", "c", "t", "E", "r", "r", "o", "r">>
    [] e.type = "ReadError" ->
         <<"R", "e", "a", "d", "E", "r", "r", "o", "r">>
    [] e.type = "RemoteProtocolError" ->
         <<"R", "e", "m", "o", "t", "e", "P", "r", "o", "t", "o", "c", "o",
           "l", "E", "r", "r", "o", "r">>
    [] e.type = "HTTPStatusError" ->
         <<"H", "T", "T", "P", "S", "t", "a", "t", "u", "s", "E", "r", "r",
           "o", "r">>
    [] e.type = "CancelledError" ->
         <<"C", "a", "n", "c", "e", "l", "l", "e", "d", "E", "r", "r", "o",
           "r">>
    [] e.type = "TimeoutError" ->
         <<"T", "i", "m", "e", "o", "u", "t", "E", "r", "r", "o", "r">>
    [] OTHER -> <<"E", "x", "c", "e", "p", "t", "i", "o", "n">>

\* _handle_api_error
handle_api_error(e) ==
  IF isinstance(e, {"HTTPStatusError"})
    THEN IF e.status = 404 THEN MSG_NOT_FOUND
         ELSE IF e.status = 429 THEN MSG_RATE_LIMIT
         ELSE MSG_STATUS \o str_int(e.status)
  ELSE IF isinstance(e, {"TimeoutException"}) THEN MSG_TIMED_OUT
  ELSE MSG_ERROR \o type_name(e)

\* tools._retry_delay_seconds; jitter is the value random.uniform returned
serper_retry_delay_seconds(attempt_number, jitter) ==
  (SERPER_BACKOFF_BASE_SECONDS * pow2(attempt_number - 1)) + jitter

\* What the provider does with one request: it answers with a status (and,
\* for 200, with or without organic results), or the transport raises.
Response(status, organic) ==
  [kind |-> "response", status |-> status, organic |-> organic, exc |-> NoError]
Raises(exc) == [kind |-> "raise", status |-> 0, organic |-> FALSE, exc |-> exc]

SearchStatuses == {404, 408, 429, 503}
SearchTransportErrors == {"ReadTimeout", "ConnectError", "ReadError"}
SearchOutcomes ==
  {Response(200, TRUE), Response(200, FALSE)}
    \cup {Response(s, FALSE) : s \in SearchStatuses}
    \cup {Raises(Exc(x)) : x \in SearchTransportErrors}

\* defect: a retryable failure is retried on the last attempt too
serper_attempts_remain_inclusive(attempt) == attempt <= SERPER_RETRY_ATTEMPTS

\* `attempt < SERPER_RETRY_ATTEMPTS` of the retry loop of _serper_search
serper_attempts_remain(attempt) == attempt < SERPER_RETRY_ATTEMPTS

\* One pass of the retry loop of _serper_search over the outcome of
\* client.post: sleep and try again, return the JSON body, or raise.
serper_search_attempt(attempt, outcome, last_error) ==
  IF outcome.kind = "response"
    THEN IF outcome.status \in SERPER_RETRYABLE_STATUS_CODES
            /\ serper_attempts_remain(attempt)
           THEN [do |-> "sleep", exc |-> NoError, last_error |-> last_error]
         ELSE IF outcome.status >= 400
           \* raise_for_status, then `except httpx.HTTPStatusError`
           THEN LET exc == StatusExc("HTTPStatusError", outcome.status)
                IN IF exc.status \in SERPER_RETRYABLE_STATUS_CODES
                      /\ serper_attempts_remain(attempt)
                     THEN [do |-> "sleep", exc |-> NoError, last_error |-> exc]
                     ELSE [do |-> "raise", exc |-> exc, last_error |-> exc]
         ELSE [do |-> "return", exc |-> NoError, last_error |-> last_error]
  ELSE IF isinstance(outcome.exc, {"CancelledError"})
    THEN [do |-> "raise", exc |-> outcome.exc, last_error |-> last_error]
  ELSE IF isinstance(outcome.exc, {"TimeoutException", "ConnectError", "NetworkError"})
    THEN IF serper_attempts_remain(attempt)
           THEN [do |-> "sleep", exc |-> NoError, last_error |-> outcome.exc]
           \* the loop is over: `raise last_error`
           ELSE [do |-> "raise", exc |-> outcome.exc, last_error |-> outcome.exc]
  ELSE [do |-> "raise", exc |-> outcome.exc, last_error |-> last_error]

\* the text a tool builds from the JSON body
\* defect: a search without results yields the empty text
tool_results_empty(tool, organic, query) == IF organic THEN MSG_RESULTS ELSE NoText

tool_results(tool, organic, query) ==
  IF organic THEN MSG_RESULTS
  ELSE IF tool = "enrichment_search_company" THEN MSG_NO_RESULTS_COMPANY \o query
  ELSE MSG_NO_RESULTS \o query

\* defect: the tools catch BaseException
tool_except_base(exc) == [caught |-> TRUE, text |-> handle_api_error(exc)]

\* `except Exception as e: return _handle_api_error(e)` of both tools
tool_except(exc) ==
  IF isinstance(exc, {"Exception"})
    THEN [caught |-> TRUE, text |-> handle_api_error(exc)]
    ELSE [caught |-> FALSE, text |-> NoText]

(***************************************************************************)
(* llm.py: configuration and pure helpers.  The three deadlines and the    *)
(* retry constants are read from the environment (llm.py:21-26); the model *)
(* runs deadlines of 8 (search phase), 3 (one model call) and 16 (whole    *)
(* request) ticks, 3 attempts per model, backoff base and jitter of one    *)
(* tick.                                                                   *)
(***************************************************************************)
SEARCH_CONTEXT_TIMEOUT_SECONDS == 8
LLM_CALL_TIMEOUT_SECONDS == 3
ENRICH_TOTAL_TIMEOUT_SECONDS == 16
\* int(os.getenv("LLM_RETRY_ATTEMPTS", "3")): the default, and the value the
\* process of the run read
DEFAULT_LLM_RETRY_ATTEMPTS == 3
LLM_RETRY_ATTEMPTS == run.llm_retry_attempts
LLM_BACKOFF_BASE_SECONDS == 1
LLM_BACKOFF_JITTER_SECONDS == 1
RETRYABLE_STATUS_CODES == {408, 409, 425, 429, 500, 502, 503, 504, 529}

\* defect: the exponent is the attempt number
retry_delay_seconds_doubled(attempt_number, jitter) ==
  (LLM_BACKOFF_BASE_SECONDS * pow2(attempt_number)) + jitter

\* llm._retry_delay_seconds; jitter is the value random.uniform returned
retry_delay_seconds(attempt_number, jitter) ==
  (LLM_BACKOFF_BASE_SECONDS * pow2(attempt_number - 1)) + jitter

\* str.strip() (the whitespace of the model is the space)
RECURSIVE lstrip(_)
lstrip(s) == IF s # <<>> /\ Head(s) = " " THEN lstrip(Tail(s)) ELSE s
RECURSIVE rstrip(_)
rstrip(s) ==
  IF s # <<>> /\ s[Len(s)] = " " THEN rstrip(SubSeq(s, 1, Len(s) - 1)) ELSE s
strip(s) == rstrip(lstrip(s))

\* str.split(","): the pieces between the commas, empty pieces included
RECURSIVE split_from(_, _, _)
split_from(s, i, piece) ==
  IF i > Len(s) THEN <<piece>>
  ELSE IF s[i] = "," THEN <<piece>> \o split_from(s, i + 1, <<>>)
  ELSE split_from(s, i + 1, Append(piece, s[i]))
split(s) == split_from(s, 1, <<>>)

InSeq(x, s) == \E i \in 1..Len(s) : s[i] = x

\* defect: a model already in the chain is appended again
RECURSIVE chain_of_keep_duplicates(_, _)
chain_of_keep_duplicates(models, chain) ==
  IF models = <<>> THEN chain
  ELSE chain_of_keep_duplicates(Tail(models),
         IF Head(models) # <<>> THEN Append(chain, Head(models)) ELSE chain)

\* the loop of _model_chain over [primary, *fallbacks]
RECURSIVE chain_of(_, _)
chain_of(models, chain) ==
  IF models = <<>> THEN chain
  ELSE LET model == Head(models)
       IN chain_of(Tail(models),
                   IF model # <<>> /\ ~InSeq(model, chain)
                     THEN Append(chain, model) ELSE chain)

nonempty_stripped(pieces) ==
  LET stripped == [i \in 1..Len(pieces) |-> strip(pieces[i])]
  IN SelectSeq(stripped, LAMBDA m : m # <<>>)

\* _model_chain, from the values of ANTHROPIC_MODEL and
\* ANTHROPIC_FALLBACK_MODELS
model_chain(anthropic_model, anthropic_fallback_models) ==
  LET primary == strip(anthropic_model)
      fallbacks == nonempty_stripped(split(anthropic_fallback_models))
  IN chain_of(<<primary>> \o fallbacks, <<>>)

\* the environments of the model: a primary and fallbacks with a duplicate,
\* an empty entry and padding; a primary alone; nothing configured
ModelEnvs ==
  { <<<<"A">>, <<" ", "B", ",", "A", ",", ",", " ", "B">>>>,
    <<<<" ", "A", " ">>, <<>>>>,
    <<<<>>, <<" ", ",">>>> }

TXT_OVERLOADED ==
  <<"o", "v", "e", "r", "l", "o", "a", "d", "e", "d">>
TXT_RATE_LIMIT ==
  <<"r", "a", "t", "e", " ", "l", "i", "m", "i", "t">>
TXT_ERROR_CODE_529 ==
  <<"e", "r", "r", "o", "r", " ", "c", "o", "d", "e", ":", " ", "5", "2",
    "9">>
TXT_ERROR_MARKER ==
  <<"e", "r", "r", "o", "r", ":">>
TXT_TIMED_OUT ==
  <<"t", "i", "m", "e", "d", " ", "o", "u", "t">>
TXT_STATUS_5 ==
  <<"a", "p", "i", " ", "r", "e", "t", "u", "r", "n", "e", "d", " ", "s",
    "t", "a", "t", "u", "s", " ", "5">>
TXT_STATUS_429 ==
  <<"a", "p", "i", " ", "r", "e", "t", "u", "r", "n", "e", "d", " ", "s",
    "t", "a", "t", "u", "s", " ", "4", "2", "9">>
TXT_CONNECTERROR ==
  <<"c", "o", "n", "n", "e", "c", "t", "e", "r", "r", "o", "r">>

\* defect: only the status of a status-coded error decides
is_retryable_llm_error_by_status(exc) ==
  isinstance(exc, {"APIStatusError"}) /\ exc.status \in RETRYABLE_STATUS_CODES

\* _is_retryable_llm_error
is_retryable_llm_error(exc) ==
  IF isinstance(exc, {"APITimeoutError", "APIConnectionError", "RateLimitError",
                      "InternalServerError"})
    THEN TRUE
  ELSE IF isinstance(exc, {"APIStatusError"})
    THEN exc.status \in RETRYABLE_STATUS_CODES
  ELSE IF isinstance(exc, {"InstructorRetryException"})
    THEN LET message == lower(exc.msg)
         IN \/ contains(message, TXT_OVERLOADED)
            \/ contains(message, TXT_RATE_LIMIT)
            \/ contains(message, TXT_ERROR_CODE_529)
  ELSE FALSE

\* defect: no tool output is taken for an upstream failure
is_upstream_search_error_never(result) == FALSE

\* _is_upstream_search_error
is_upstream_search_error(result) ==
  LET lowered == lower(result)
  IN /\ startswith(lowered, TXT_ERROR_MARKER)
     /\ \/ contains(lowered, TXT_RATE_LIMIT)
        \/ contains(lowered, TXT_TIMED_OUT)
        \/ contains(lowered, TXT_STATUS_5)
        \/ contains(lowered, TXT_STATUS_429)
        \/ contains(lowered, TXT_CONNECTERROR)

\* what client.chat.completions.create does with one call
MSG_OVERLOADED ==
  <<"O", "v", "e", "r", "l", "o", "a", "d", "e", "d">>
MSG_VALIDATION ==
  <<"1", " ", "v", "a", "l", "i", "d", "a", "t", "i", "o", "n", " ", "e",
    "r", "r", "o", "r">>

LlmErrors ==
  { Exc("APITimeoutError"),
    StatusExc("RateLimitError", 429),
    StatusExc("APIStatusError", 529),
    StatusExc("BadRequestError", 400),
    MsgExc("InstructorRetryException", MSG_OVERLOADED),
    MsgExc("InstructorRetryException", MSG_VALIDATION) }

Returns == [kind |-> "response", status |-> 200, organic |-> TRUE, exc |-> NoError]
LlmOutcomes == {Returns} \cup {Raises(e) : e \in LlmErrors}

\* defect: one more attempt than LLM_RETRY_ATTEMPTS
attempts_remain_inclusive(attempt) == attempt <= LLM_RETRY_ATTEMPTS

\* `attempt < LLM_RETRY_ATTEMPTS` of both handlers of _call_llm_with_fallback
attempts_remain(attempt) == attempt < LLM_RETRY_ATTEMPTS

\* defect: the last retryable failure on a model is raised instead of
\* moving on to the next model
llm_attempt_raise_exhausted(attempt, outcome, last_error) ==
  IF outcome.kind = "response"
    THEN [do |-> "return", exc |-> NoError, last_error |-> last_error]
  ELSE IF isinstance(outcome.exc, {"CancelledError"})
    THEN [do |-> "raise", exc |-> outcome.exc, last_error |-> last_error]
  ELSE IF isinstance(outcome.exc, {"TimeoutError"})
    THEN [do |-> IF attempt < LLM_RETRY_ATTEMPTS THEN "sleep" ELSE "next",
          exc |-> NoError, last_error |-> outcome.exc]
  ELSE IF is_retryable_llm_error(outcome.exc) /\ attempt < LLM_RETRY_ATTEMPTS
    THEN [do |-> "sleep", exc |-> NoError, last_error |-> outcome.exc]
  ELSE [do |-> "raise", exc |-> outcome.exc, last_error |-> outcome.exc]

\* defect: every exception is retried like a retryable one
llm_attempt_retry_fatal(attempt, outcome, last_error) ==
  IF outcome.kind = "response"
    THEN [do |-> "return", exc |-> NoError, last_error |-> last_error]
  ELSE IF isinstance(outcome.exc, {"CancelledError"})
    THEN [do |-> "raise", exc |-> outcome.exc, last_error |-> last_error]
  ELSE [do |-> IF attempt < LLM_RETRY_ATTEMPTS THEN "sleep" ELSE "next",
        exc |-> NoError, last_error |-> outcome.exc]

\* defect: a CancelledError thrown into the model call is handled like a
\* per-call timeout
llm_attempt_swallow_cancel(attempt, outcome, last_error) ==
  IF outcome.kind = "response"
    THEN [do |-> "return", exc |-> NoError, last_error |-> last_error]
  ELSE IF isinstance(outcome.exc, {"CancelledError", "TimeoutError"})
    THEN [do |-> IF attempt < LLM_RETRY_ATTEMPTS THEN "sleep" ELSE "next",
          exc |-> NoError, last_error |-> outcome.exc]
  ELSE IF is_retryable_llm_error(outcome.exc) /\ attempt < LLM_RETRY_ATTEMPTS
    THEN [do |-> "sleep", exc |-> NoError, last_error |-> outcome.exc]
  ELSE IF ~is_retryable_llm_error(outcome.exc)
    THEN [do |-> "raise", exc |-> outcome.exc, last_error |-> outcome.exc]
  ELSE [do |-> "next", exc |-> NoError, last_error |-> outcome.exc]

\* defect: a per-call timeout does not update last_error
llm_attempt_stale_error(attempt, outcome, last_error) ==
  IF outcome.kind = "response"
    THEN [do |-> "return", exc |-> NoError, last_error |-> last_error]
  ELSE IF isinstance(outcome.exc, {"CancelledError"})
    THEN [do |-> "raise", exc |-> outcome.exc, last_error |-> last_error]
  ELSE IF isinstance(outcome.exc, {"TimeoutError"})
    THEN [do |-> IF attempt < LLM_RETRY_ATTEMPTS THEN "sleep" ELSE "next",
          exc |-> NoError, last_error |-> last_error]
  ELSE IF is_retryable_llm_error(outcome.exc) /\ attempt < LLM_RETRY_ATTEMPTS
    THEN [do |-> "sleep", exc |-> NoError, last_error |-> outcome.exc]
  ELSE IF ~is_retryable_llm_error(outcome.exc)
    THEN [do |-> "raise", exc |-> outcome.exc, last_error |-> outcome.exc]
  ELSE [do |-> "next", exc |-> NoError, last_error |-> outcome.exc]

\* The handlers around one call of _call_llm_with_fallback, applied to what
\* left `async with asyncio.timeout(...)`: sleep and retry the model, go on
\* to the next model, or raise.
llm_attempt(attempt, outcome, last_error) ==
  IF outcome.kind = "response"
    THEN [do |-> "return", exc |-> NoError, last_error |-> last_error]
  ELSE IF isinstance(outcome.exc, {"CancelledError"})
    THEN [do |-> "raise", exc |-> outcome.exc, last_error |-> last_error]
  ELSE IF isinstance(outcome.exc, {"TimeoutError"})
    THEN [do |-> IF attempts_remain(attempt) THEN "sleep" ELSE "next",
          exc |-> NoError, last_error |-> outcome.exc]
  ELSE IF isinstance(outcome.exc, {"Exception"})
    THEN IF is_retryable_llm_error(outcome.exc) /\ attempts_remain(attempt)
           THEN [do |-> "sleep", exc |-> NoError, last_error |-> outcome.exc]
         ELSE IF ~is_retryable_llm_error(outcome.exc)
           THEN [do |-> "raise", exc |-> outcome.exc, last_error |-> outcome.exc]
         ELSE [do |-> "next", exc |-> NoError, last_error |-> outcome.exc]
  ELSE [do |-> "raise", exc |-> outcome.exc, last_error |-> last_error]

\* asyncio.Timeout.__aexit__ with the exception that leaves the block:
\* a context whose timer fired takes its cancel request back, and turns a
\* CancelledError into TimeoutError when no other cancel request is pending
timeout_exit(exc, fired, cancelling) ==
  IF fired
    THEN [exc |-> IF exc.type = "CancelledError" /\ cancelling - 1 <= 0
                    THEN Exc("TimeoutError") ELSE exc,
          cancelling |-> cancelling - 1]
    ELSE [exc |-> exc, cancelling |-> cancelling]

\* defect: enrich_data has no handler for TimeoutError
enrich_data_except_none(exc) == exc

\* the handlers of enrich_data: CancelledError is re-raised, TimeoutError is
\* replaced by EnrichmentTimeoutError, anything else passes
enrich_data_except(exc) ==
  IF isinstance(exc, {"CancelledError"}) THEN exc
  ELSE IF isinstance(exc, {"TimeoutError"}) THEN Exc("EnrichmentTimeoutError")
  ELSE exc

\* the search calls of _gather_search_context, in order
\* str.replace(old, ""): every occurrence of old is taken out, left to right
RECURSIVE replace_empty(_, _)
replace_empty(s, old) ==
  IF s = <<>> THEN <<>>
  ELSE IF startswith(s, old) THEN replace_empty(SubSeq(s, Len(old) + 1, Len(s)), old)
  ELSE <<Head(s)>> \o replace_empty(Tail(s), old)

\* s.split("/")[0]
RECURSIVE split_slash_0(_)
split_slash_0(s) ==
  IF s = <<>> \/ Head(s) = "/" THEN <<>>
  ELSE <<Head(s)>> \o split_slash_0(Tail(s))

\* the domain of _gather_search_context (llm.py:186)
bare_domain(raw_data) ==
  split_slash_0(
    replace_empty(
      replace_empty(
        replace_empty(raw_data, <<"h", "t", "t", "p", "s", ":", "/", "/">>),
        <<"h", "t", "t", "p", ":", "/", "/">>),
      <<"w", "w", "w", ".">>))

\* the tool calls of _gather_search_context in program order: the tool, the
\* query and num_results it is given, and the label of its result
search_calls(data_type, raw_data) ==
  CASE data_type = "company" ->
         << [tool |-> "enrichment_search_company",
             query |-> raw_data, num_results |-> 5,
             label |-> <<"C", "o", "m", "p", "a", "n", "y", " ", "s",
                        "e", "a", "r", "c", "h", " ", "r", "e", "s",
                        "u", "l", "t", "s">>],
            [tool |-> "enrichment_web_search",
             query |-> raw_data \o <<" ", "l", "i", "n", "k", "e", "d", "i", "n",
                        " ", "c", "o", "m", "p", "a", "n", "y">>,
             num_results |-> 3,
             label |-> <<"L", "i", "n", "k", "e", "d", "I", "n", " ",
                        "s", "e", "a", "r", "c", "h">>] >>
    [] data_type = "person" ->
         << [tool |-> "enrichment_web_search",
             query |-> raw_data \o <<" ", "p", "r", "o", "f", "e", "s", "s", "i",
                        "o", "n", "a", "l", " ", "p", "r", "o", "f",
                        "i", "l", "e">>,
             num_results |-> 5,
             label |-> <<"P", "e", "r", "s", "o", "n", " ", "s", "e",
                        "a", "r", "c", "h", " ", "r", "e", "s", "u",
                        "l", "t", "s">>],
            [tool |-> "enrichment_web_search",
             query |-> raw_data \o <<" ", "l", "i", "n", "k", "e", "d", "i", "n">>,
             num_results |-> 3,
             label |-> <<"L", "i", "n", "k", "e", "d", "I", "n", " ",
                        "s", "e", "a", "r", "c", "h">>] >>
    [] data_type = "address" ->
         << [tool |-> "enrichment_web_search",
             query |-> raw_data \o <<" ", "a", "d", "d", "r", "e", "s", "s", " ",
                        "l", "o", "c", "a", "t", "i", "o", "n">>,
             num_results |-> 5,
             label |-> <<"A", "d", "d", "r", "e", "s", "s", " ", "s",
                        "e", "a", "r", "c", "h", " ", "r", "e", "s",
                        "u", "l", "t", "s">>] >>
    [] data_type = "domain" ->
         << [tool |-> "enrichment_web_search",
             query |-> <<"s", "i", "t", "e", ":">> \o bare_domain(raw_data) \o <<" ", "O", "R", " ">>
                       \o bare_domain(raw_data) \o <<" ", "c", "o", "m", "p", "a", "n", "y", " ",
                        "a", "b", "o", "u", "t">>,
             num_results |-> 5,
             label |-> <<"D", "o", "m", "a", "i", "n", " ", "s", "e",
                        "a", "r", "c", "h", " ", "r", "e", "s", "u",
                        "l", "t", "s">>],
            [tool |-> "enrichment_search_company",
             query |-> bare_domain(raw_data), num_results |-> 5,
             label |-> <<"C", "o", "m", "p", "a", "n", "y", " ", "i",
                        "n", "f", "o">>] >>
    [] OTHER -> << >>

\* defect: the entries are joined last first
RECURSIVE join_search_results_reversed(_)
join_search_results_reversed(results) ==
  IF results = << >> THEN << >>
  ELSE LET entry == Head(results).label \o <<":", "\n">> \o Head(results).text
       IN IF Len(results) = 1 THEN entry
          ELSE join_search_results_reversed(Tail(results)) \o <<"\n", "\n">> \o entry

\* "\n\n".join(search_results), each entry being f"{label}:\n{result}"
RECURSIVE join_search_results(_)
join_search_results(results) ==
  IF results = << >> THEN << >>
  ELSE LET entry == Head(results).label \o <<":", "\n">> \o Head(results).text
       IN IF Len(results) = 1 THEN entry
          ELSE entry \o <<"\n", "\n">> \o join_search_results(Tail(results))

DataTypes == {"company", "person", "address", "domain"}

\* the requests of the runs: a name for the first three data types, a URL
\* and a bare host for domain
Requests ==
  [data_type : {"company", "person", "address"}, raw_data : {<<"S", "t">>}]
  \cup [data_type : {"domain"},
        raw_data : { <<"h", "t", "t", "p", "s", ":", "/", "/", "w",
                       "w", "w", ".", "s", ".", "i", "o", "/", "a">>,
                     <<"s", ".", "i", "o">> }]

(***************************************************************************)
(* llm.py: one call of enrich_data.  `run` is the call's state between two *)
(* awaits: where it waits (pc), the time since it was entered (t), the     *)
(* locals of the loops it is in, the state of its two asyncio.timeout      *)
(* contexts and the number of cancel requests pending on its task.  The    *)
(* fields from `cancelled` on observe the run and are read by no step.     *)
(***************************************************************************)
Running == NoError

NewRun(data_type, raw_data, chain) ==
  [data_type |-> data_type, raw_data |-> raw_data, chain |-> chain,
   \* the environment _model_chain read the chain from
   anthropic_model |-> NoText, anthropic_fallback_models |-> NoText,
   llm_retry_attempts |-> DEFAULT_LLM_RETRY_ATTEMPTS,
   pc |-> "search", t |-> 0, until |-> 0,
   call |-> 1, attempt |-> 1, serper_last_error |-> NoError,
   search_results |-> << >>,
   search_context |-> NoText, \* the evidence of the user message, once built
   model |-> 1, last_error |-> NoError,
   search_ctx |-> "armed", total_ctx |-> "armed", cancelling |-> 0,
   result |-> Running, cause |-> NoError, provider |-> "",
   cancelled |-> FALSE,       \* the caller has cancelled the task
   expired |-> {},            \* the timeout contexts whose timer went off
   interrupted_at |-> "",     \* the await a CancelledError was thrown into
   searches |-> IF search_calls(data_type, raw_data) = << >> THEN << >>
                ELSE << [tool |-> search_calls(data_type, raw_data)[1].tool,
                         query |-> search_calls(data_type, raw_data)[1].query] >>,
                              \* the tool calls begun so far
   organic |-> << >>,         \* per search answered 2xx: did it hold results?
   requests |-> 0,            \* requests made by the current search call
   search_exhausted |-> FALSE,\* a search call failed on its last attempt
   \* the latest request of a search call: its call, its attempt number and
   \* how it ended (call 0: no request yet)
   search_last |-> [call |-> 0, attempt |-> 0, how |-> ""],
   model_calls |-> 0,         \* model calls made
   sleeps |-> 0,              \* backoff sleeps of the model loop
   attempt_exc |-> NoError,   \* what the latest model call raised
   retryable |-> FALSE,       \* what _is_retryable_llm_error answered for it
   hist |-> << >>]            \* the latest two model calls

AwaitPoints == {"search", "search_sleep", "llm", "llm_sleep"}

\* the deadlines whose timer can fire during the await the run is in
ArmedDeadlines(r) ==
  (IF r.search_ctx = "armed" /\ r.pc \in {"search", "search_sleep"}
     THEN {[ctx |-> "search", at |-> SEARCH_CONTEXT_TIMEOUT_SECONDS]} ELSE {})
  \cup (IF r.total_ctx = "armed"
          THEN {[ctx |-> "total", at |-> ENRICH_TOTAL_TIMEOUT_SECONDS]} ELSE {})
  \cup (IF r.pc = "llm"
          THEN {[ctx |-> "llm", at |-> r.t + LLM_CALL_TIMEOUT_SECONDS]} ELSE {})

\* no armed timer goes off before time tm
BeforeDeadlines(r, tm) == \A d \in ArmedDeadlines(r) : tm <= d.at

\* the armed timers that go off first
Earliest(r) == {d \in ArmedDeadlines(r) : \A e \in ArmedDeadlines(r) : d.at <= e.at}

\* how long the awaited operation can last: a request until the httpx
\* timeout, a sleep until its end, a model call until its own deadline
LongestWait(r) ==
  CASE r.pc = "search" -> SERPER_TIMEOUT_SECONDS
    [] r.pc \in {"search_sleep", "llm_sleep"} -> r.until - r.t
    [] OTHER -> LLM_CALL_TIMEOUT_SECONDS

\* an exception leaves `async with asyncio.timeout(ENRICH_TOTAL...)` and
\* meets the handlers of enrich_data
UnwindTotal(r, exc) ==
  LET x == timeout_exit(exc, r.total_ctx = "fired", r.cancelling)
  IN [r EXCEPT !.pc = "done",
               !.total_ctx = "exited",
               !.cancelling = x.cancelling,
               !.result = enrich_data_except(x.exc),
               !.cause = IF isinstance(x.exc, {"CancelledError"}) THEN @
                         ELSE IF isinstance(x.exc, {"TimeoutError"}) THEN x.exc
                         ELSE @]

\* an exception leaves `async with asyncio.timeout(SEARCH_CONTEXT...)`
UnwindSearch(r, exc) ==
  LET x == timeout_exit(exc, r.search_ctx = "fired", r.cancelling)
  IN UnwindTotal([r EXCEPT !.search_ctx = "exited",
                           !.cancelling = x.cancelling], x.exc)

\* defect: the first model is called whatever the chain and the number of
\* attempts are
StartLlm_unguarded(r) ==
  [r EXCEPT !.search_ctx = "exited",
            !.cancelling = IF r.search_ctx = "fired" THEN @ - 1 ELSE @,
            !.search_context = join_search_results(r.search_results),
            !.pc = "llm", !.model = 1, !.attempt = 1]

\* _call_llm_with_fallback is entered: the search context is left without
\* an exception, and the loop over the chain starts (or has nothing to run)
StartLlm(r) ==
  LET r1 == [r EXCEPT !.search_ctx = "exited",
                      !.cancelling = IF r.search_ctx = "fired" THEN @ - 1 ELSE @,
                      !.search_context = join_search_results(r.search_results)]
  IN IF r.chain = << >> \/ LLM_RETRY_ATTEMPTS < 1
       THEN UnwindTotal([r1 EXCEPT !.provider = "LLM provider"],
                        Exc("UpstreamServiceUnavailableError"))
       ELSE [r1 EXCEPT !.pc = "llm", !.model = 1, !.attempt = 1]

\* _call_search_or_raise on the text a tool returned, then the append and
\* the next call of _gather_search_context
SearchReturned(r, text) ==
  IF is_upstream_search_error(text)
    THEN UnwindSearch([r EXCEPT !.provider = "Search provider"],
                      Exc("UpstreamServiceUnavailableError"))
    ELSE LET calls == search_calls(r.data_type, r.raw_data)
             results == Append(r.search_results,
                               [label |-> calls[r.call].label, text |-> text])
         IN IF r.call < Len(calls)
              THEN [r EXCEPT !.search_results = results, !.call = r.call + 1,
                             !.searches = Append(@, [tool |-> calls[r.call + 1].tool,
                                                     query |-> calls[r.call + 1].query]),
                             !.attempt = 1, !.serper_last_error = NoError,
                             !.requests = 0, !.pc = "search"]
              ELSE StartLlm([r EXCEPT !.search_results = results])

\* an exception leaves _serper_search and meets the tool's handler
SearchRaised(r, exc) ==
  LET h == tool_except(exc)
  IN IF h.caught THEN SearchReturned(r, h.text) ELSE UnwindSearch(r, exc)

\* a failure the search retry loop retries while attempts remain
SearchTransient(outcome) ==
  \/ outcome.kind = "response" /\ outcome.status \in SERPER_RETRYABLE_STATUS_CODES
  \/ /\ outcome.kind = "raise"
     /\ isinstance(outcome.exc, {"TimeoutException", "ConnectError", "NetworkError"})

\* how a search request ended, for the observer
SearchVerdict(outcome) ==
  IF outcome.kind = "response"
    THEN IF outcome.status \in SERPER_RETRYABLE_STATUS_CODES THEN "transient"
         ELSE IF outcome.status >= 400 THEN "status" ELSE "ok"
  ELSE IF outcome.exc.type = "CancelledError" THEN "cancelled"
  ELSE "transient"

\* the outcome of client.post meets the retry loop of _serper_search
SerperStep(r, outcome, jitter) ==
  LET s == serper_search_attempt(r.attempt, outcome, r.serper_last_error)
      r1 == [r EXCEPT !.serper_last_error = s.last_error,
                      !.requests = @ + 1,
                      !.search_last = [call |-> r.call, attempt |-> r.attempt,
                                       how |-> SearchVerdict(outcome)],
                      !.search_exhausted = @ \/ (/\ r.attempt = SERPER_RETRY_ATTEMPTS
                                                 /\ SearchTransient(outcome))]
  IN CASE s.do = "sleep" ->
            [r1 EXCEPT !.pc = "search_sleep",
                       !.until = r.t + serper_retry_delay_seconds(r.attempt, jitter)]
       [] s.do = "return" ->
            LET c == search_calls(r.data_type, r.raw_data)[r.call]
            IN SearchReturned([r1 EXCEPT !.organic = Append(@, outcome.organic)],
                              tool_results(c.tool, outcome.organic, c.query))
       [] OTHER -> SearchRaised(r1, s.exc)

\* how a model call ended, for the observer
LlmVerdict(outcome) ==
  IF outcome.kind = "response" THEN "ok"
  ELSE IF outcome.exc.type = "CancelledError" THEN "cancelled"
  ELSE IF outcome.exc.type = "TimeoutError" THEN "timeout"
  ELSE IF is_retryable_llm_error(outcome.exc) THEN "retryable"
  ELSE "fatal"

Last2(h) == IF Len(h) > 2 THEN SubSeq(h, Len(h) - 1, Len(h)) ELSE h

\* what left the per-call timeout context meets the handlers of
\* _call_llm_with_fallback
LlmStep(r, outcome, jitter) ==
  LET s == llm_attempt(r.attempt, outcome, r.last_error)
      r1 == [r EXCEPT !.last_error = s.last_error,
                      !.model_calls = @ + 1,
                      !.attempt_exc = outcome.exc,
                      !.retryable = outcome.kind = "raise"
                                    /\ is_retryable_llm_error(outcome.exc),
                      !.hist = Last2(Append(@, [model |-> r.model,
                                                attempt |-> r.attempt,
                                                how |-> LlmVerdict(outcome)]))]
  IN CASE s.do = "return" ->
            [r1 EXCEPT !.pc = "done", !.total_ctx = "exited",
                       !.result = Exc("result")]
       [] s.do = "sleep" ->
            [r1 EXCEPT !.pc = "llm_sleep", !.sleeps = @ + 1,
                       !.until = r.t + retry_delay_seconds(r.attempt, jitter)]
       [] s.do = "next" ->
            IF r.model < Len(r.chain)
              THEN [r1 EXCEPT !.model = r.model + 1, !.attempt = 1]
              ELSE UnwindTotal([r1 EXCEPT !.cause = s.last_error,
                                          !.provider = "LLM provider"],
                               Exc("UpstreamServiceUnavailableError"))
       [] OTHER -> UnwindTotal(r1, s.exc)

\* CancelledError is thrown into the await the run is in, at time tm: the
\* timers of `fired` went off, and the caller cancelled the task or not
Interrupt(r, fired, cancelled, tm, jitter) ==
  LET r0 == [r EXCEPT
               !.t = tm,
               !.search_ctx = IF "search" \in fired THEN "fired" ELSE @,
               !.total_ctx = IF "total" \in fired THEN "fired" ELSE @,
               !.cancelling = @ + Cardinality(fired) + (IF cancelled THEN 1 ELSE 0),
               !.cancelled = @ \/ cancelled,
               !.expired = @ \cup (fired \ {"llm"}),
               !.interrupted_at = r.pc]
      exc == Exc("CancelledError")
  IN CASE r.pc = "search" -> SerperStep(r0, Raises(exc), jitter)
       [] r.pc = "search_sleep" -> SearchRaised(r0, exc)
       [] r.pc = "llm" ->
            LET x == timeout_exit(exc, "llm" \in fired, r0.cancelling)
            IN LlmStep([r0 EXCEPT !.cancelling = x.cancelling], Raises(x.exc), jitter)
       [] OTHER -> UnwindTotal(r0, exc)

\* the values of random.uniform(0, jitter), in the unit of the model.  The
\* upper end is among them: the float sum base * 2 ** (n - 1) + uniform(0, j)
\* can round to base * 2 ** (n - 1) + j (0.75 + uniform(0, 0.5) can be 1.25),
\* and uniform(0, 0) is 0.
Jitters(provider_jitter) == 0 .. provider_jitter

\* the outcomes of a run: either the search provider or the model provider
\* may fail in it, the other one answers
SearchOutcomesOf(who) ==
  IF who = "search" THEN SearchOutcomes
  ELSE {Response(200, TRUE), Response(200, FALSE)}

LlmOutcomesOf(who) == IF who = "model" THEN LlmOutcomes ELSE {Returns}

\* client.post of the current search call ends by itself
SearchRequest ==
  /\ run.pc = "search"
  /\ \E outcome \in SearchOutcomesOf(faulty), d \in 0 .. SERPER_TIMEOUT_SECONDS,
        jitter \in Jitters(SERPER_BACKOFF_JITTER_SECONDS) :
       /\ (d = SERPER_TIMEOUT_SECONDS) <=> isinstance(outcome.exc, {"TimeoutException"})
       /\ BeforeDeadlines(run, run.t + d)
       /\ run' = SerperStep([run EXCEPT !.t = run.t + d], outcome, jitter)
  /\ UNCHANGED <<billingVars, faulty>>

\* the backoff sleep of _serper_search ends
SearchSleep ==
  /\ run.pc = "search_sleep"
  /\ BeforeDeadlines(run, run.until)
  /\ run' = [run EXCEPT !.t = run.until, !.pc = "search", !.attempt = @ + 1]
  /\ UNCHANGED <<billingVars, faulty>>

\* client.chat.completions.create ends by itself
LlmCall ==
  /\ run.pc = "llm"
  /\ \E outcome \in LlmOutcomesOf(faulty), d \in 0 .. LLM_CALL_TIMEOUT_SECONDS,
        jitter \in Jitters(LLM_BACKOFF_JITTER_SECONDS) :
       /\ BeforeDeadlines(run, run.t + d)
       /\ run' = LlmStep([run EXCEPT !.t = run.t + d], outcome, jitter)
  /\ UNCHANGED <<billingVars, faulty>>

\* the backoff sleep of _call_llm_with_fallback ends
LlmSleep ==
  /\ run.pc = "llm_sleep"
  /\ BeforeDeadlines(run, run.until)
  /\ run' = [run EXCEPT !.t = run.until, !.pc = "llm", !.attempt = @ + 1]
  /\ UNCHANGED <<billingVars, faulty>>

\* the earliest armed timer goes off while the run awaits; the caller may
\* cancel the task at the same instant
DeadlineExpires ==
  /\ run.pc \in AwaitPoints
  /\ \E first \in Earliest(run), cancelled \in BOOLEAN,
        jitter \in Jitters(LLM_BACKOFF_JITTER_SECONDS) :
       /\ first.at <= run.t + LongestWait(run)
       /\ run' = Interrupt(run, {d.ctx : d \in Earliest(run)}, cancelled,
                           first.at, jitter)
  /\ UNCHANGED <<billingVars, faulty>>

\* the caller cancels the task while the run awaits, before any timer
CallerCancels ==
  /\ run.pc \in AwaitPoints
  /\ \E tm \in run.t .. (run.t + LongestWait(run)),
        jitter \in Jitters(LLM_BACKOFF_JITTER_SECONDS) :
       /\ BeforeDeadlines(run, tm)
       /\ run' = Interrupt(run, {}, TRUE, tm, jitter)
  /\ UNCHANGED <<billingVars, faulty>>

\* no enrich_data call is in flight
NoRun == [NewRun("company", << >>, << >>) EXCEPT !.pc = "idle"]

(***************************************************************************)
(* billing.py under concurrent requests.  The billing functions are plain  *)
(* synchronous functions, so inside one process a call runs from its read  *)
(* to its write without a break.  Worker processes that share the Redis    *)
(* store run their calls side by side: another worker's Redis commands and *)
(* provider calls may fall between a call's GET and its SETEX.             *)
(***************************************************************************)
Workers == {"w1", "w2"}

NoTask ==
  [pc |-> "idle",       \* idle, create (before Session.create), handle
                        \* (before the event branch), done
   op |-> None, key |-> None,
   check_t |-> -1,      \* when the call read the cache or the marker
   overlapped |-> FALSE,\* another call wrote this key after this call's read
                        \* and before its own write
   write_t |-> -1,      \* the latest write of the key by any other call, as
                        \* of this call's return (-1: none)
   raised |-> "", url |-> NoUrl, invoked |-> 0,
   status |-> "", reason |-> "", handler |-> 0,
   raced |-> {}]        \* the call sites at which this worker has so far
                        \* completed an overtaken call that did its work

Idle(w) == tasks[w].pc \in {"idle", "done"}
InFlight(op) == {w \in Workers : tasks[w].op = op /\ tasks[w].pc \notin {"idle", "done"}}
EventById(id) == CHOOSE e \in feed : e.id = id

\* the other calls in flight on the same key, now overtaken by a write
Overtake(w, t, wrote) ==
  [v \in Workers |->
     IF v = w THEN t
     ELSE IF wrote /\ tasks[v].pc \notin {"idle", "done"}
             /\ tasks[v].op = t.op /\ tasks[v].key = t.key
       THEN [tasks[v] EXCEPT !.overlapped = TRUE]
       ELSE tasks[v]]

\* create_checkout_session in worker w, up to the provider call
CheckoutLookup(w) ==
  \E plan \in {"basic", "gold"}, key \in {"k1"} :
    LET r == create_checkout_session_lookup(plan, key)
        t == [NoTask EXCEPT !.op = "checkout", !.key = key, !.check_t = now,
                            !.raced = tasks[w].raced]
    IN /\ Idle(w)
       /\ providerCalls + Cardinality(InFlight("checkout")) < MaxProviderCalls
       /\ checkoutCache' = r.cache
       /\ tasks' = [tasks EXCEPT ![w] =
                      IF r.miss THEN [t EXCEPT !.pc = "create"]
                      ELSE [t EXCEPT !.pc = "done", !.raised = r.raised,
                                     !.url = r.url]]
       /\ IF r.miss THEN UNCHANGED <<ckPrev, ckWrite>>
          ELSE ObserveCheckout([raised |-> r.raised, url |-> r.url, invoked |-> 0],
                               key, None, plan)
       /\ last' = [NoOp EXCEPT !.op = "checkout_lookup", !.idem = key]
       /\ UNCHANGED <<enrichVars, configVars, now, accounts, emailIdx, subIdx,
                      eventMarks, providerCalls, whPrev>>

\* create_checkout_session in worker w, from the provider call to the return
CheckoutCreate(w) ==
  \E stripe_ok \in BOOLEAN :
    LET key == tasks[w].key
        r == create_checkout_session_create(key, stripe_ok, checkoutCache)
        t == [tasks[w] EXCEPT
                !.pc = "done", !.raised = r.raised, !.url = r.url,
                !.invoked = r.invoked,
                !.write_t = IF key \in DOMAIN ckWrite THEN ckWrite[key].t ELSE -1,
                !.raced = IF tasks[w].overlapped /\ r.invoked = 1 /\ r.raised = ""
                            THEN @ \cup {"checkout"} ELSE @]
    IN /\ tasks[w].pc = "create"
       /\ checkoutCache' = r.cache
       /\ providerCalls' = providerCalls + r.invoked
       /\ ObserveCheckout(r, key, None, "basic")
       /\ tasks' = Overtake(w, t, r.raised = "" /\ r.invoked = 1)
       /\ last' = [NoOp EXCEPT !.op = "checkout_create", !.idem = key]
       /\ UNCHANGED <<enrichVars, configVars, now, accounts, emailIdx, subIdx,
                      eventMarks, whPrev>>

\* handle_webhook in worker w, up to the dedup check
WebhookDedup(w) ==
  \E event \in feed, construct \in Constructs :
    LET chk == IF Truthy(event.id)
                 THEN is_webhook_event_processed(eventMarks, event.id)
                 ELSE [hit |-> FALSE, marks |-> eventMarks]
        t == [NoTask EXCEPT !.op = "webhook", !.key = event.id, !.check_t = now,
                            !.raced = tasks[w].raced]
    IN /\ Idle(w)
       /\ IF construct # "event"
            THEN /\ tasks' = [tasks EXCEPT ![w] = [t EXCEPT !.pc = "done"]]
                 /\ UNCHANGED eventMarks
            ELSE /\ eventMarks' = chk.marks
                 /\ tasks' = [tasks EXCEPT ![w] =
                                IF Truthy(event.id) /\ chk.hit
                                  THEN [t EXCEPT !.pc = "done", !.status = "ignored",
                                                 !.reason = "duplicate_event"]
                                  ELSE [t EXCEPT !.pc = "handle"]]
       /\ last' = [NoOp EXCEPT !.op = "webhook_dedup", !.event_id = event.id]
       /\ UNCHANGED <<enrichVars, configVars, now, accounts, emailIdx, subIdx,
                      checkoutCache, providerCalls, histVars>>

\* handle_webhook in worker w, from the event branch to the return
WebhookDispatch(w) ==
  LET id == tasks[w].key
      r == handle_webhook_dispatch(EventById(id), Db, eventMarks)
      t == [tasks[w] EXCEPT
              !.pc = "done", !.raised = r.raised, !.status = r.status,
              !.handler = r.handler,
              !.write_t = IF id \in DOMAIN whPrev THEN whPrev[id].t ELSE -1,
              !.raced = IF tasks[w].overlapped /\ r.handler = 1 /\ r.status # ""
                          THEN @ \cup {"webhook"} ELSE @]
  IN /\ tasks[w].pc = "handle"
     /\ SetDb(r.db)
     /\ eventMarks' = r.marks
     /\ whPrev' = IF r.status # ""
                    THEN put(whPrev, id, [status |-> r.status,
                                          handler |-> r.handler, t |-> now])
                    ELSE whPrev
     /\ tasks' = Overtake(w, t, r.status # "")
     /\ last' = [NoOp EXCEPT !.op = "webhook_dispatch", !.event_id = id]
     /\ UNCHANGED <<enrichVars, configVars, now, checkoutCache, providerCalls,
                    ckPrev, ckWrite>>

(***************************************************************************)
(* Specifications.  The checkout cache, the webhook/account state and the  *)
(* enrich endpoint share no variable but the clock and the configuration,  *)
(* so each is explored by a specification of its own operations, started   *)
(* in every configuration those operations read.                           *)
(***************************************************************************)
InitStore ==
  /\ now = 0
  /\ accounts = <<>>
  /\ emailIdx = <<>>
  /\ subIdx = <<>>
  /\ checkoutCache = <<>>
  /\ eventMarks = <<>>
  /\ providerCalls = 0
  /\ last = NoOp
  /\ ckPrev = <<>>
  /\ ckWrite = <<>>
  /\ whPrev = <<>>
  /\ tasks = [w \in Workers |-> NoTask]
  /\ run = NoRun

AllPrices == [p \in PlanNames |-> IF p = "free" THEN None ELSE "price_" \o p]

\* create_checkout_session, called directly and through POST /api/v1/checkout
InitCheckout ==
  /\ redis \in BOOLEAN
  /\ priceIds \in PriceConfigs
  /\ rapidSecret = None
  /\ feed = {}
  /\ faulty = "none"
  /\ InitStore

NextCheckout ==
  \/ Tick
  \/ CallCreateCheckoutSession
  \/ checkout_endpoint

SpecCheckout == InitCheckout /\ [][NextCheckout]_vars

\* create_checkout_session called with client tokens by several clients
NextCheckoutKey ==
  \/ Tick
  \/ CallCreateCheckoutSessionWithKey

SpecCheckoutKey == InitCheckout /\ [][NextCheckoutKey]_vars

\* webhook deliveries and registrations
\* the runs of the webhook specification: the provider delivers the events
\* of one of these feeds, each any number of times
EventsWithId(ids) == {e \in Events : e.id \in ids}
Feeds ==
  { EventsWithId({"evt1", "evt2"}),
    EventsWithId({"evt3", "evt5"}),
    EventsWithId({"evt1", "evt4"}),
    EventsWithId({None}) }

InitWebhook ==
  /\ redis \in BOOLEAN
  /\ priceIds = AllPrices
  /\ rapidSecret = None
  /\ feed \in Feeds
  /\ faulty = "none"
  /\ InitStore

NextWebhook ==
  \/ Tick
  \/ register_endpoint
  \/ stripe_webhook

SpecWebhook == InitWebhook /\ [][NextWebhook]_vars

\* metered requests of accounts that are upgraded and downgraded meanwhile
InitUsage ==
  /\ redis \in BOOLEAN
  /\ priceIds = AllPrices
  /\ rapidSecret = "s3cret"
  /\ feed = EventsWithId({"evt1", "evt2"})
  /\ faulty = "none"
  /\ InitStore

NextUsage ==
  \/ Tick
  \/ stripe_webhook
  \/ enrich_endpoint
  \/ batch_enrich_endpoint

SpecUsage == InitUsage /\ [][NextUsage]_vars

\* checkout calls and webhook deliveries of two workers on one Redis store
InitWorkers ==
  /\ redis = TRUE
  /\ priceIds = AllPrices
  /\ rapidSecret = None
  /\ feed = EventsWithId({"evt1"})
  /\ faulty = "none"
  /\ InitStore

NextWorkers ==
  \/ Tick
  \/ \E w \in Workers : CheckoutLookup(w)
  \/ \E w \in Workers : CheckoutCreate(w)
  \/ \E w \in Workers : WebhookDedup(w)
  \/ \E w \in Workers : WebhookDispatch(w)

SpecWorkers == InitWorkers /\ [][NextWorkers]_vars

\* one process without Redis: checkout calls and deliveries of one event
\* against the in-process store
InitMemory ==
  /\ redis = FALSE
  /\ priceIds = AllPrices
  /\ rapidSecret = None
  /\ feed = EventsWithId({"evt1"})
  /\ faulty = "none"
  /\ InitStore

NextMemory ==
  \/ Tick
  \/ CallCreateCheckoutSession
  \/ stripe_webhook

SpecMemory == InitMemory /\ [][NextMemory]_vars

\* registrations and metered enrich requests
InitApi ==
  /\ redis \in BOOLEAN
  /\ priceIds = AllPrices
  /\ rapidSecret \in {None, "s3cret"}
  /\ feed = {}
  /\ faulty = "none"
  /\ InitStore

NextApi ==
  \/ Tick
  \/ register_endpoint
  \/ enrich_endpoint

SpecApi == InitApi /\ [][NextApi]_vars

\* registrations and metered batch requests
NextBatch ==
  \/ Tick
  \/ register_endpoint
  \/ batch_enrich_endpoint

SpecBatch == InitApi /\ [][NextBatch]_vars

\* one call of enrich_data, for every data type and model environment,
\* under every timing and outcome of its provider calls
InitEnrich ==
  /\ redis = FALSE
  /\ priceIds = AllPrices
  /\ rapidSecret = None
  /\ feed = {}
  /\ faulty \in {"search", "model"}
  /\ now = 0
  /\ accounts = <<>>
  /\ emailIdx = <<>>
  /\ subIdx = <<>>
  /\ checkoutCache = <<>>
  /\ eventMarks = <<>>
  /\ providerCalls = 0
  /\ last = NoOp
  /\ ckPrev = <<>>
  /\ ckWrite = <<>>
  /\ whPrev = <<>>
  /\ tasks = [w \in Workers |-> NoTask]
  /\ \E request \in Requests, env \in ModelEnvs :
       run = [NewRun(request.data_type, request.raw_data,
                     model_chain(env[1], env[2]))
                EXCEPT !.anthropic_model = env[1],
                       !.anthropic_fallback_models = env[2]]

NextEnrich ==
  \/ SearchRequest
  \/ SearchSleep
  \/ LlmCall
  \/ LlmSleep
  \/ DeadlineExpires
  \/ CallerCancels

SpecEnrich == InitEnrich /\ [][NextEnrich]_vars

\* _model_chain alone, on every value of the two environment variables up
\* to a length, and on the value of the repository's test
\* _is_retryable_llm_error on its own, over exceptions of every class it
\* tells apart, with every status and message it looks at
MSG_RATE_LIMITED ==
  <<"H", "i", "t", " ", "t", "h", "e", " ", "R", "a", "t", "e", " ",
      "L", "i", "m", "i", "t", ",", " ", "s", "l", "o", "w", " ", "d",
      "o", "w", "n">>
MSG_ERROR_CODE_529 ==
  <<"E", "r", "r", "o", "r", " ", "c", "o", "d", "e", ":", " ", "5",
      "2", "9", " ", "-", " ", "o", "v", "e", "r", "l", "o", "a", "d">>
MSG_ERROR_CODE_500 ==
  <<"E", "r", "r", "o", "r", " ", "c", "o", "d", "e", ":", " ", "5",
      "0", "0">>
ClassifiedTypes ==
  {"APITimeoutError", "APIConnectionError", "RateLimitError",
    "InternalServerError", "APIStatusError", "BadRequestError", "ConflictError",
    "InstructorRetryException", "ValueError", "TimeoutError", "HTTPStatusError"}
ClassifiedStatuses ==
  {0, 400, 404, 408, 409, 425, 429, 500, 501, 502, 503, 504, 529}
ClassifiedMessages ==
  {NoText, MSG_OVERLOADED, MSG_VALIDATION, MSG_RATE_LIMITED, MSG_ERROR_CODE_529,
    MSG_ERROR_CODE_500}

Classify ==
  /\ run.pc = "idle"
  /\ run' = [run EXCEPT !.pc = "classified",
                        !.retryable = is_retryable_llm_error(run.attempt_exc)]
  /\ UNCHANGED <<billingVars, faulty>>

InitClassify ==
  /\ redis = FALSE
  /\ priceIds = AllPrices
  /\ rapidSecret = None
  /\ feed = {}
  /\ faulty = "none"
  /\ now = 0
  /\ accounts = <<>>
  /\ emailIdx = <<>>
  /\ subIdx = <<>>
  /\ checkoutCache = <<>>
  /\ eventMarks = <<>>
  /\ providerCalls = 0
  /\ last = NoOp
  /\ ckPrev = <<>>
  /\ ckWrite = <<>>
  /\ whPrev = <<>>
  /\ tasks = [w \in Workers |-> NoTask]
  /\ \E type \in ClassifiedTypes, status \in ClassifiedStatuses,
        msg \in ClassifiedMessages :
       run = [NoRun EXCEPT !.attempt_exc =
                [type |-> type, status |-> status, msg |-> msg]]

NextClassify == Classify

SpecClassify == InitClassify /\ [][NextClassify]_vars

\* the model loop under every number of attempts the environment can give,
\* the search provider answering; every await completes and every armed
\* timer goes off in time
RetryAttemptsEnv == 0 .. DEFAULT_LLM_RETRY_ATTEMPTS

InitFallback ==
  /\ redis = FALSE
  /\ priceIds = AllPrices
  /\ rapidSecret = None
  /\ feed = {}
  /\ faulty = "model"
  /\ now = 0
  /\ accounts = <<>>
  /\ emailIdx = <<>>
  /\ subIdx = <<>>
  /\ checkoutCache = <<>>
  /\ eventMarks = <<>>
  /\ providerCalls = 0
  /\ last = NoOp
  /\ ckPrev = <<>>
  /\ ckWrite = <<>>
  /\ whPrev = <<>>
  /\ tasks = [w \in Workers |-> NoTask]
  /\ \E env \in ModelEnvs, attempts \in RetryAttemptsEnv :
       run = [NewRun("address", <<"S", "t">>, model_chain(env[1], env[2]))
                EXCEPT !.anthropic_model = env[1],
                       !.anthropic_fallback_models = env[2],
                       !.llm_retry_attempts = attempts]

NextFallback ==
  \/ SearchRequest
  \/ LlmCall
  \/ LlmSleep
  \/ DeadlineExpires
  \/ CallerCancels

SpecFallback ==
  /\ InitFallback
  /\ [][NextFallback]_vars
  \* the event loop resumes the run: the awaited request, call or sleep
  \* completes or a timer interrupts it
  /\ WF_vars(NextFallback)

EnvAlphabet == {"A", "B", "C", ",", " "}
EnvTexts == UNION {[1..n -> EnvAlphabet] : n \in 0..MaxEnvLen}
EnvModels == {<<>>, <<" ">>, <<"A">>, <<" ", "A", " ">>, <<"B", "C">>}

ModelChain ==
  /\ run.pc = "idle"
  /\ run' = [run EXCEPT
               !.pc = "chain",
               !.chain = model_chain(run.anthropic_model,
                                     run.anthropic_fallback_models)]
  /\ UNCHANGED <<billingVars, faulty>>

InitChain ==
  /\ redis = FALSE
  /\ priceIds = AllPrices
  /\ rapidSecret = None
  /\ feed = {}
  /\ faulty = "none"
  /\ now = 0
  /\ accounts = <<>>
  /\ emailIdx = <<>>
  /\ subIdx = <<>>
  /\ checkoutCache = <<>>
  /\ eventMarks = <<>>
  /\ providerCalls = 0
  /\ last = NoOp
  /\ ckPrev = <<>>
  /\ ckWrite = <<>>
  /\ whPrev = <<>>
  /\ tasks = [w \in Workers |-> NoTask]
  /\ \E m \in EnvModels,
        f \in EnvTexts \cup {<<"B", ",", " ", "A", ",", "B", ",", "C">>} :
       run = [NoRun EXCEPT !.anthropic_model = m,
                           !.anthropic_fallback_models = f]

NextChain == ModelChain

SpecChain == InitChain /\ [][NextChain]_vars

(***************************************************************************)
(* Claims about the billing idempotency layer (SpecCheckout, SpecWebhook). *)
(***************************************************************************)
\* the latest step was a create_checkout_session call with a client token
\* and a plan the function accepts
KeyedCheckout ==
  /\ last.op = "create_checkout_session"
  /\ last.idem \in IdemKeys
  /\ last.valid_plan

Redelivery ==
  /\ last.op = "stripe_webhook"
  /\ last.status # ""
  /\ last.prev_status # ""
  /\ now - last.prev_wh_t < WEBHOOK_EVENT_TTL_SECONDS

\* C2 as stated: of two deliveries of one event id within the webhook TTL the
\* first returns success, the second ignored / duplicate_event, and the
\* mutating handler runs exactly once.
C2_FirstSuccessThenDuplicate ==
  Redelivery
  => /\ last.prev_status = "success"
     /\ last.status = "ignored"
     /\ last.reason = "duplicate_event"
     /\ last.prev_handler + last.handler = 1

HandledTypes == {EvCompleted, EvDeleted}

\* the event of the feed that carries this id
EventOf(id) == CHOOSE e \in Events : e.id = id

\* does handle_webhook reach a mutating handler for this event?
HasMutation(e) ==
  \/ e.type = EvDeleted
  \/ /\ e.type = EvCompleted
     /\ Truthy(e.customer_email) \/ Truthy(e.metadata_email)
     /\ Truthy(e.plan)

C2_RedeliveryAnswer ==
  Redelivery
  => /\ last.prev_status =
          IF last.etype \in HandledTypes THEN "success" ELSE "ignored"
     /\ last.status = "ignored"
     /\ last.reason = "duplicate_event"
     /\ last.handler = 0
     /\ last.prev_handler = IF HasMutation(EventOf(last.event_id)) THEN 1 ELSE 0

C2_RedeliveryStep ==
  (/\ last'.op = "stripe_webhook"
   /\ last'.status # ""
   /\ last'.prev_status # ""
   /\ now' - last'.prev_wh_t < WEBHOOK_EVENT_TTL_SECONDS)
  => UNCHANGED storeVars

\* C2 amended: when an event id is delivered again less than the webhook TTL
\* after handle_webhook processed it, the earlier call returned success if the
\* event is a checkout-completed or subscription-deleted event (ignored
\* otherwise), the later call returns ignored with reason duplicate_event,
\* the mutating handler ran in the earlier call only (once if the event is a
\* deletion or names email and plan, else not at all), and the later call
\* changes no account, no idempotency record and no event marker.
C2_DuplicateIgnored == []C2_RedeliveryAnswer /\ [][C2_RedeliveryStep]_vars

\* C2 witness: the redelivery of an upgrade event, answered as a duplicate
C2_Witness ==
  /\ Redelivery
  /\ last.etype = EvCompleted
  /\ last.prev_status = "success"
  /\ last.prev_handler = 1
  /\ last.reason = "duplicate_event"
  /\ now > last.prev_wh_t

(***************************************************************************)
(* Claims about the model-call loop, the deadlines, cancellation and the   *)
(* search error path of enrich_data (SpecEnrich).                          *)
(***************************************************************************)
\* a model call that failed on a retryable error or on the per-call timeout
FailedRetryably(h) == h.how \in {"retryable", "timeout"}

\* C3: when the last of the LLM_RETRY_ATTEMPTS attempts on a model that is not
\* the last of the chain fails on a retryable error, the loop stands before
\* attempt 1 of the model that follows it, and the next model call made is
\* that attempt.
C3_NextAttemptOnNextModel ==
  \A i \in 1..Len(run.hist) :
    LET h == run.hist[i]
    IN (/\ FailedRetryably(h)
        /\ h.attempt = LLM_RETRY_ATTEMPTS
        /\ h.model < Len(run.chain))
       => IF i < Len(run.hist)
            THEN /\ run.hist[i + 1].model = h.model + 1
                 /\ run.hist[i + 1].attempt = 1
            ELSE /\ run.pc = "llm"
                 /\ run.model = h.model + 1
                 /\ run.attempt = 1

\* C3 witness: the third attempt on the primary failed retryably and the
\* following call went to the fallback
C3_Witness ==
  /\ Len(run.hist) = 2
  /\ run.hist[1].model = 1
  /\ run.hist[1].attempt = LLM_RETRY_ATTEMPTS
  /\ run.hist[1].how = "retryable"
  /\ run.hist[2].model = 2
  /\ run.hist[2].attempt = 1
  /\ run.model_calls = LLM_RETRY_ATTEMPTS + 1

\* the sleeps the loop has made when it makes attempt a on model m: one
\* before every retry of a model
SleepsBefore(m, a) == ((m - 1) * (LLM_RETRY_ATTEMPTS - 1)) + (a - 1)

LatestCall == run.hist[Len(run.hist)]

\* C4: when a model call raises a fatal error, enrich's model loop is over at
\* once with that very error: no further call, no sleep, no wrapping.
C4_FatalRaisedAtOnce ==
  (run.hist # << >> /\ LatestCall.how = "fatal")
  => /\ run.pc = "done"
     /\ run.result = run.attempt_exc
     /\ run.result.type # "UpstreamServiceUnavailableError"
     /\ run.sleeps = SleepsBefore(LatestCall.model, LatestCall.attempt)
     /\ run.model = LatestCall.model
     /\ run.attempt = LatestCall.attempt

\* C4 witness: a fatal error on the second attempt of the primary, with a
\* fallback configured that is never tried
C4_Witness ==
  /\ run.hist # << >>
  /\ LatestCall.how = "fatal"
  /\ LatestCall.model = 1
  /\ LatestCall.attempt = 2
  /\ Len(run.chain) = 2
  /\ run.result.type = "BadRequestError"

\* C5: when the last attempt on the last model fails retryably or times out
\* (every model before it having used all its attempts), the call ends with
\* UpstreamServiceUnavailableError caused by the error of that last attempt.
C5_ExhaustedChainRaisesUpstream ==
  (/\ run.hist # << >>
   /\ FailedRetryably(LatestCall)
   /\ LatestCall.attempt = LLM_RETRY_ATTEMPTS
   /\ LatestCall.model = Len(run.chain))
  => /\ run.pc = "done"
     /\ run.result.type = "UpstreamServiceUnavailableError"
     /\ run.provider = "LLM provider"
     /\ run.cause = run.attempt_exc
     /\ run.cause # NoError
     /\ run.model_calls = Len(run.chain) * LLM_RETRY_ATTEMPTS

\* C5 witness: a chain of two models exhausted, the last attempt timing out
C5_Witness ==
  /\ run.hist # << >>
  /\ Len(run.chain) = 2
  /\ LatestCall.model = 2
  /\ LatestCall.attempt = LLM_RETRY_ATTEMPTS
  /\ LatestCall.how = "timeout"
  /\ run.result.type = "UpstreamServiceUnavailableError"
  /\ run.cause.type = "TimeoutError"

\* C6 as stated: once the timer of the search deadline or of the overall
\* deadline has gone off, enrich_data is over with EnrichmentTimeoutError,
\* raised no later than the overall deadline.
C6_ExpiryRaisesEnrichmentTimeout ==
  run.expired # {}
  => /\ run.pc = "done"
     /\ run.result.type = "EnrichmentTimeoutError"
     /\ run.t <= ENRICH_TOTAL_TIMEOUT_SECONDS

\* C6 amended: once the timer of the search deadline or of the overall
\* deadline has gone off and the caller has not cancelled the task,
\* enrich_data is over with EnrichmentTimeoutError (never TimeoutError, never
\* UpstreamServiceUnavailableError), raised no later than the overall
\* deadline; the error is raised once, the run being over.
C6_ExpiryWithoutCancelRaisesEnrichmentTimeout ==
  (run.expired # {} /\ ~run.cancelled)
  => /\ run.pc = "done"
     /\ run.result.type = "EnrichmentTimeoutError"
     /\ run.cause.type = "TimeoutError"
     /\ run.t <= ENRICH_TOTAL_TIMEOUT_SECONDS

\* C6 witness: the search deadline goes off during a backoff sleep of the
\* search retry loop
C6_Witness ==
  /\ run.expired = {"search"}
  /\ ~run.cancelled
  /\ run.interrupted_at = "search_sleep"
  /\ run.t = SEARCH_CONTEXT_TIMEOUT_SECONDS
  /\ run.result.type = "EnrichmentTimeoutError"

C7_CancelledIsOver ==
  run.cancelled => run.pc = "done" /\ run.result.type = "CancelledError"

C7_CancelStep ==
  (run'.cancelled /\ ~run.cancelled)
  => /\ run'.call = run.call
     /\ run'.model = run.model
     /\ run'.attempt = run.attempt
     /\ run'.sleeps = run.sleeps
     /\ run'.search_results = run.search_results

\* C7: when the caller cancels the task during an await of enrich_data, the
\* call is over at once with CancelledError (also when a deadline goes off at
\* the same instant): the step starts no attempt, advances no loop, and the
\* result is neither EnrichmentTimeoutError nor
\* UpstreamServiceUnavailableError.
C7_CancellationPropagates == []C7_CancelledIsOver /\ [][C7_CancelStep]_vars

\* C7 witness: the caller cancels during a search request that has been
\* retried
C7_Witness ==
  /\ run.cancelled
  /\ run.interrupted_at = "search"
  /\ run.attempt = 2
  /\ run.expired = {}
  /\ run.result.type = "CancelledError"

\* C8 as stated: a search call that fails on its last attempt ends
\* enrich_data with UpstreamServiceUnavailableError naming the search
\* provider, unless a deadline or the caller ends it first.
C8_SearchExhaustionRaisesUpstream ==
  (run.search_exhausted /\ run.interrupted_at = "")
  => /\ run.pc = "done"
     /\ run.result.type = "UpstreamServiceUnavailableError"
     /\ run.provider = "Search provider"

(***************************************************************************)
(* Claims about the endpoints of main.py.                                  *)
(***************************************************************************)
\* C9 as stated (SpecApi): when enrich_data raises
\* UpstreamServiceUnavailableError or EnrichmentTimeoutError, the enrich
\* endpoint answers 503 with detail error upstream_unavailable, and for
\* UpstreamServiceUnavailableError with Retry-After 15.
C9_UpstreamFailuresAnswer503 ==
  (/\ last.op = "enrich_endpoint"
   /\ last.started
   /\ last.outcome \in {"UpstreamServiceUnavailableError", "EnrichmentTimeoutError"})
  => /\ last.http = 503
     /\ last.detail_error = "upstream_unavailable"
     /\ (last.outcome = "UpstreamServiceUnavailableError" => last.retry_after = 15)

\* C10 as stated (SpecCheckout): an accepted checkout request calls
\* create_checkout_session once, with the request's Idempotency-Key header
\* as idempotency_key.
C10_HeaderForwarded ==
  (last.op = "checkout_endpoint" /\ last.http = 200)
  => /\ last.calls = 1
     /\ last.idem = last.hdr

(***************************************************************************)
(* Further claims about the checkout cache and the webhook dedup.          *)
(***************************************************************************)
\* the latest step was a create_checkout_session call without an idempotency
\* key (None or the empty string) for a plan the function accepts
KeylessCheckout ==
  /\ last.op \in {"create_checkout_session", "checkout_endpoint"}
  /\ last.calls = 1
  /\ last.idem \notin IdemKeys
  /\ last.valid_plan

C11_KeylessAnswer ==
  KeylessCheckout
  => /\ last.invoked = 1
     /\ last.raised = "" => (last.url = providerCalls /\ last.url # NoUrl)

C11_KeylessStep ==
  (/\ last'.op \in {"create_checkout_session", "checkout_endpoint"}
   /\ last'.calls = 1
   /\ last'.idem \notin IdemKeys
   /\ last'.valid_plan)
  => /\ checkoutCache' = checkoutCache
     /\ providerCalls' = providerCalls + 1

\* C11: a create_checkout_session call without an idempotency key, for a
\* valid paid plan, leaves the idempotency cache as it was and invokes the
\* payment provider exactly once; when it returns, it returns the URL of its
\* own provider call, so two such calls return two different URLs.
C11_KeylessNeverCached == []C11_KeylessAnswer /\ [][C11_KeylessStep]_vars

\* C11 witness: the second of two keyless calls, returning the second URL
\* while the cache is empty
C11_Witness ==
  /\ KeylessCheckout
  /\ last.op = "create_checkout_session"
  /\ last.raised = ""
  /\ last.url = 2
  /\ providerCalls = 2
  /\ checkoutCache = << >>
  /\ ckWrite = << >>

\* a worker's call that went past its read and did its work: the provider
\* returned a session, or the event's branch ran and answered
DidWork(w) ==
  /\ tasks[w].pc = "done"
  /\ \/ tasks[w].op = "checkout" /\ tasks[w].invoked = 1 /\ tasks[w].raised = ""
     \/ tasks[w].op = "webhook" /\ tasks[w].handler = 1 /\ tasks[w].status # ""

TtlOf(op) ==
  IF op = "checkout" THEN CHECKOUT_IDEMPOTENCY_TTL_SECONDS
  ELSE WEBHOOK_EVENT_TTL_SECONDS

\* a call that did its work although the key had been written less than the
\* TTL before its read, or after its read, was overtaken between its read
\* and its write
C12_RepeatOnlyWhenOvertaken ==
  \A w \in Workers :
    (/\ DidWork(w)
     /\ tasks[w].write_t >= 0
     /\ tasks[w].check_t < tasks[w].write_t + TtlOf(tasks[w].op))
    => tasks[w].overlapped

\* a call that is past its read does its work whatever the store holds by then
C12_PastReadStep ==
  \A w \in Workers :
    /\ (tasks[w].pc = "create" /\ tasks'[w].pc = "done")
       => (providerCalls' = providerCalls + 1 /\ tasks'[w].invoked = 1)
    /\ (tasks[w].pc = "handle" /\ tasks'[w].pc = "done")
       => tasks'[w].handler = 1

\* C12: the read and the write of the idempotency cache, and of the webhook
\* dedup marker, are separate steps.  Two calls with the same key that both
\* read before either writes both go on: the provider is invoked twice, the
\* event's handler runs twice.  Within the TTL a second provider call or a
\* second handler run for a key happens only to a call that was overtaken
\* between its read and its write.
C12_CheckThenSetNotAtomic ==
  []C12_RepeatOnlyWhenOvertaken /\ [][C12_PastReadStep]_vars

\* C12 witness: two workers have just delivered the same event id, both ran
\* its handler, and one of them has also completed an overtaken checkout that
\* made the second provider call for its key
C12_Witness ==
  /\ \A w \in Workers : DidWork(w) /\ tasks[w].op = "webhook"
  /\ tasks["w1"].key = tasks["w2"].key
  /\ tasks["w1"].check_t = tasks["w2"].check_t
  /\ \E w \in Workers : tasks[w].overlapped /\ tasks[w].raced = {"checkout", "webhook"}
  /\ providerCalls = 2
  /\ ckPrev["k1"].url = 2

\* the latest step was a handle_webhook call for an event with an id that
\* returned a status result
StatusForId ==
  /\ last.op = "stripe_webhook"
  /\ Truthy(last.event_id)
  /\ last.status \in {"success", "ignored"}

\* the marker of the event id is in the store, unexpired, and runs out one
\* TTL after the call that processed the event
C13_Marked ==
  StatusForId
  => /\ last.event_id \in DOMAIN eventMarks
     /\ ttl_live(eventMarks[last.event_id].expires_at)
     /\ eventMarks[last.event_id].expires_at =
          (IF last.reason = "duplicate_event" THEN last.prev_wh_t ELSE now)
          + WEBHOOK_EVENT_TTL_SECONDS

\* C13: a handle_webhook call that returns a status result for an event with
\* an id leaves the id marked processed, whichever branch ran (upgrade,
\* downgrade, unhandled type, duplicate); a delivery of the id less than the
\* TTL after the call that processed it is answered ignored / duplicate_event.
C13_StatusLeavesIdMarked ==
  /\ C13_Marked
  /\ (StatusForId /\ Redelivery) => last.reason = "duplicate_event"

\* C13 witness: an event of an unhandled type, answered ignored and marked,
\* is delivered again within the TTL and answered as a duplicate
C13_Witness ==
  /\ StatusForId
  /\ Redelivery
  /\ last.etype \notin HandledTypes
  /\ last.prev_status = "ignored"
  /\ last.reason = "duplicate_event"
  /\ last.event_id \in DOMAIN eventMarks

\* the latest step was a handle_webhook call, past construct_event, for an
\* event without id
DeliveryWithoutId ==
  /\ last.op = "stripe_webhook"
  /\ last.event_id = None
  /\ last.error = ""

C14_Answer ==
  DeliveryWithoutId
  => /\ last.reason # "duplicate_event"
     /\ last.status = IF last.etype \in HandledTypes THEN "success" ELSE "ignored"
     /\ last.handler = IF last.etype \in HandledTypes THEN 1 ELSE 0
     /\ None \notin DOMAIN eventMarks

C14_Step ==
  (last'.op = "stripe_webhook" /\ last'.event_id = None)
  => eventMarks' = eventMarks

\* C14: handle_webhook processes every delivery of an event without id as
\* new: it never answers duplicate_event, runs the event's handler in every
\* delivery, and writes no processed marker.
C14_NoIdAlwaysNew == []C14_Answer /\ [][C14_Step]_vars

\* C14 witness: an upgrade event without id is delivered again within the
\* webhook TTL of its earlier delivery and its handler runs again
C14_Witness ==
  /\ DeliveryWithoutId
  /\ last.etype = EvCompleted
  /\ last.handler = 1
  /\ last.prev_handler = 1
  /\ last.prev_wh_t >= 0
  /\ now - last.prev_wh_t < WEBHOOK_EVENT_TTL_SECONDS
  /\ eventMarks = << >>

\* the latest step was a handle_webhook call that ran the
\* customer.subscription.deleted branch
DeletedHandled ==
  /\ last.op = "stripe_webhook"
  /\ last.etype = EvDeleted
  /\ last.handler = 1

C15_Answer == DeletedHandled => (last.status = "success" /\ last.raised = "")

\* the step of such a call: the accounts holding the subscription id go to
\* the free plan and lose the subscription id, every other account and every
\* other field but the quota of the plan stays as it was
C15_Step ==
  (/\ last'.op = "stripe_webhook"
   /\ last'.etype = EvDeleted
   /\ last'.handler = 1)
  => /\ DOMAIN accounts' = DOMAIN accounts
     /\ \A k \in DOMAIN accounts :
          IF accounts[k].stripe_subscription_id = last'.subscription
            THEN accounts'[k] =
                   [accounts[k] EXCEPT
                      !.plan = "free",
                      !.requests_limit = requests_per_month("free"),
                      !.stripe_subscription_id = None]
            ELSE accounts'[k] = accounts[k]
     /\ last'.sub_owners = 0 => accounts' = accounts

\* C15: a customer.subscription.deleted webhook sets the plan of the account
\* that holds its subscription id to free and clears that account's
\* subscription id, changes no other account, changes no account at all when
\* no account holds the id, and returns status success either way.
C15_DeletedDowngradesOwnerOnly == []C15_Answer /\ [][C15_Step]_vars

\* C15 witness: the event found its account, which is now on the free plan
\* without subscription id while a second account exists
C15_Witness ==
  /\ DeletedHandled
  /\ last.sub_owners = 1
  /\ Cardinality(DOMAIN accounts) = 2
  /\ \E k \in DOMAIN accounts :
       /\ accounts[k].plan = "free"
       /\ accounts[k].stripe_subscription_id = None
       /\ accounts[k].stripe_customer_id # None

(***************************************************************************)
(* Further claims about enrich_data.                                       *)
(***************************************************************************)
\* C16: once the timer of the search context or of the total context of
\* enrich_data has gone off, the call is over: the await it interrupted was
\* the last one, no search request and no model call follows, and the call
\* ends in EnrichmentTimeoutError (or, cancelled by its caller too, in
\* CancelledError); when the search timer went off no model call was made.
C16_ExpiryEndsTheCall ==
  run.expired # {}
  => /\ run.pc = "done"
     /\ run.result.type \in {"EnrichmentTimeoutError", "CancelledError"}
     /\ run.interrupted_at \in AwaitPoints
     /\ "search" \in run.expired
          => (run.model_calls = 0 /\ run.interrupted_at \in {"search", "search_sleep"})

\* C16 witness: the search timer went off during the second search call,
\* after the first had returned; no model call was made
C16_Witness ==
  /\ run.expired = {"search"}
  /\ run.pc = "done"
  /\ Len(run.search_results) = 1
  /\ run.model_calls = 0
  /\ run.result.type = "EnrichmentTimeoutError"

\* an enrich_data call that is over and that its caller never cancelled
EndedUncancelled == run.pc = "done" /\ ~run.cancelled

TypedEndings ==
  {"result", "UpstreamServiceUnavailableError", "EnrichmentTimeoutError"}

\* the exception instructor raises when the model's output fails validation
\* on every validation retry
ValidationFailure(exc) ==
  exc.type = "InstructorRetryException" /\ ~is_retryable_llm_error(exc)

SearchPhaseCompleted ==
  \/ run.pc \in {"llm", "llm_sleep"}
  \/ run.model_calls > 0
  \/ run.pc = "done" /\ run.provider = "LLM provider"

CompanyTool == "enrichment_search_company"
WebTool == "enrichment_web_search"

\* the calls of each data_type as the claim lists them: tool, query and label
C18_Order ==
  CASE run.data_type = "company" ->
         << [tool |-> CompanyTool, query |-> run.raw_data,
             label |-> <<"C", "o", "m", "p", "a", "n", "y", " ", "s",
                        "e", "a", "r", "c", "h", " ", "r", "e", "s",
                        "u", "l", "t", "s">>],
            [tool |-> WebTool,
             query |-> run.raw_data \o <<" ", "l", "i", "n", "k", "e", "d",
                                    "i", "n", " ", "c", "o", "m", "p",
                                    "a", "n", "y">>,
             label |-> <<"L", "i", "n", "k", "e", "d", "I", "n", " ",
                        "s", "e", "a", "r", "c", "h">>] >>
    [] run.data_type = "person" ->
         << [tool |-> WebTool,
             query |-> run.raw_data \o <<" ", "p", "r", "o", "f", "e", "s",
                                    "s", "i", "o", "n", "a", "l", " ",
                                    "p", "r", "o", "f", "i", "l", "e">>,
             label |-> <<"P", "e", "r", "s", "o", "n", " ", "s", "e",
                        "a", "r", "c", "h", " ", "r", "e", "s", "u",
                        "l", "t", "s">>],
            [tool |-> WebTool,
             query |-> run.raw_data \o <<" ", "l", "i", "n", "k", "e", "d",
                                    "i", "n">>,
             label |-> <<"L", "i", "n", "k", "e", "d", "I", "n", " ",
                        "s", "e", "a", "r", "c", "h">>] >>
    [] run.data_type = "address" ->
         << [tool |-> WebTool,
             query |-> run.raw_data \o <<" ", "a", "d", "d", "r", "e", "s",
                                    "s", " ", "l", "o", "c", "a", "t",
                                    "i", "o", "n">>,
             label |-> <<"A", "d", "d", "r", "e", "s", "s", " ", "s",
                        "e", "a", "r", "c", "h", " ", "r", "e", "s",
                        "u", "l", "t", "s">>] >>
    [] run.data_type = "domain" ->
         << [tool |-> WebTool,
             query |-> <<"s", "i", "t", "e", ":", "s", ".", "i", "o",
                        " ", "O", "R", " ", "s", ".", "i", "o", " ",
                        "c", "o", "m", "p", "a", "n", "y", " ", "a",
                        "b", "o", "u", "t">>,
             label |-> <<"D", "o", "m", "a", "i", "n", " ", "s", "e",
                        "a", "r", "c", "h", " ", "r", "e", "s", "u",
                        "l", "t", "s">>],
            [tool |-> CompanyTool,
             query |-> <<"s", ".", "i", "o">>,
             label |-> <<"C", "o", "m", "p", "a", "n", "y", " ", "i",
                        "n", "f", "o">>] >>

\* the evidence string built from the texts the calls returned, in that order
C18_Evidence ==
  LET e(i) == C18_Order[i].label \o <<":", "\n">> \o run.search_results[i].text
  IN IF Len(C18_Order) = 1 THEN e(1)
     ELSE e(1) \o <<"\n", "\n">> \o e(2)

\* C18: the search calls of a request begin in the order fixed for its
\* data_type (company: company search, LinkedIn search; person: profile
\* search, LinkedIn search; address: one address search; domain: domain
\* search, then company search on the domain without scheme, www. and path),
\* never more of them and never in another order; when the search phase
\* completes all of them were made and the evidence string holds their
\* labelled results in that order.
C18_FixedSearchOrder ==
  /\ run.pc # "idle" =>
       /\ Len(run.searches) <= Len(C18_Order)
       /\ \A i \in 1..Len(run.searches) :
            /\ run.searches[i].tool = C18_Order[i].tool
            /\ run.searches[i].query = C18_Order[i].query
       /\ Len(run.search_results) <= Len(run.searches)
  /\ (run.pc # "idle" /\ SearchPhaseCompleted) =>
       /\ Len(run.searches) = Len(C18_Order)
       /\ Len(run.search_results) = Len(C18_Order)
       /\ run.search_context = C18_Evidence

\* C18 witness: a domain request given as a URL completed its two searches,
\* the first with results and the second without
C18_Witness ==
  /\ run.data_type = "domain"
  /\ Len(run.raw_data) > 4
  /\ SearchPhaseCompleted
  /\ run.pc = "llm"
  /\ Len(run.searches) = 2
  /\ run.search_results[1].text = MSG_RESULTS
  /\ run.search_results[2].text # MSG_RESULTS

\* a company request both of whose searches were answered without results
BothSearchesEmpty ==
  /\ run.pc # "idle"
  /\ run.data_type = "company"
  /\ run.organic = <<FALSE, FALSE>>

\* the model has been called for the run (the call may still be in flight)
ModelInvoked == run.pc \in {"llm", "llm_sleep"} \/ run.model_calls > 0

\* the join of the two labels with empty results
C19_EmptyJoin ==
  join_search_results(<< [label |-> C18_Order[1].label, text |-> NoText],
                         [label |-> C18_Order[2].label, text |-> NoText] >>)

CheckoutReread ==
  /\ ~redis
  /\ KeyedCheckout
  /\ last.valid_plan
  /\ last.write_t >= 0
CheckoutExpiresAt == last.write_t + CHECKOUT_IDEMPOTENCY_TTL_SECONDS

\* the latest step was a delivery, past construct_event, of an event id
\* whose marker an earlier delivery wrote; the marker's expires_at
WebhookReread ==
  /\ ~redis
  /\ last.op = "stripe_webhook"
  /\ Truthy(last.event_id)
  /\ last.error = ""
  /\ last.prev_wh_t >= 0
WebhookExpiresAt == last.prev_wh_t + WEBHOOK_EVENT_TTL_SECONDS

C20_Answer ==
  /\ (CheckoutReread /\ now > CheckoutExpiresAt)
       => /\ last.invoked = 1
          /\ last.raised = "" => last.url # last.write_url
          /\ last.raised # "" => last.idem \notin DOMAIN checkoutCache
  /\ (CheckoutReread /\ ~(now > CheckoutExpiresAt))
       => /\ last.invoked = 0
          /\ last.url = last.write_url
          /\ checkoutCache[last.idem].expires_at = CheckoutExpiresAt
  /\ (WebhookReread /\ now > WebhookExpiresAt)
       => /\ last.reason # "duplicate_event"
          /\ last.handler = IF HasMutation(EventOf(last.event_id)) THEN 1 ELSE 0
  /\ (WebhookReread /\ ~(now > WebhookExpiresAt))
       => /\ last.reason = "duplicate_event"
          /\ eventMarks[last.event_id].expires_at = WebhookExpiresAt

\* a read that finds a record not past expires_at leaves the store as it was
C20_Step ==
  /\ (/\ ~redis
      /\ last'.op = "create_checkout_session"
      /\ last'.idem \in IdemKeys
      /\ last'.valid_plan
      /\ last'.write_t >= 0
      /\ ~(now > last'.write_t + CHECKOUT_IDEMPOTENCY_TTL_SECONDS))
       => checkoutCache' = checkoutCache
  /\ (/\ ~redis
      /\ last'.op = "stripe_webhook"
      /\ Truthy(last'.event_id)
      /\ last'.error = ""
      /\ last'.prev_wh_t >= 0
      /\ ~(now > last'.prev_wh_t + WEBHOOK_EVENT_TTL_SECONDS))
       => eventMarks' = eventMarks

\* C20: in the in-process store a checkout or webhook record is absent for
\* the read that finds utcnow() past its expires_at, and that read removes
\* it: the checkout call goes to the provider again, the delivery is
\* processed as new.  A record not past expires_at (utcnow() <= expires_at)
\* counts as present and the read leaves it in the store.
C20_LazyExpiry == []C20_Answer /\ [][C20_Step]_vars

\* C20 witness: a keyed checkout found its record past expires_at and got a
\* new URL from the provider, while the marker of an event, also past its
\* expires_at, is still in the store because nothing has read it
C20_Witness ==
  /\ CheckoutReread
  /\ now > CheckoutExpiresAt
  /\ last.raised = ""
  /\ last.invoked = 1
  /\ last.url # last.write_url
  /\ \E id \in DOMAIN eventMarks : now > eventMarks[id].expires_at

(***************************************************************************)
(* _model_chain.                                                           *)
(***************************************************************************)
\* _model_chain has run on the environment of the state
ChainBuilt == run.pc = "chain"

\* the entries _model_chain reads, in reading order: the primary, then the
\* pieces of the fallback list, each without its padding
ChainEntries ==
  LET pieces == split(run.anthropic_fallback_models)
  IN <<strip(run.anthropic_model)>> \o [i \in 1..Len(pieces) |-> strip(pieces[i])]

\* where an entry is first read
FirstSeen(m) == CHOOSE i \in 1..Len(ChainEntries) :
                  /\ ChainEntries[i] = m
                  /\ \A j \in 1..(i - 1) : ChainEntries[j] # m

\* ",".join(chain[1:])
RECURSIVE JoinComma(_)
JoinComma(models) ==
  IF models = <<>> THEN <<>>
  ELSE IF Len(models) = 1 THEN Head(models)
  ELSE Head(models) \o <<",">> \o JoinComma(Tail(models))

\* C21: _model_chain returns the entries it reads (the primary, then the
\* fallbacks) in first-seen order without the empty ones: no model occurs
\* twice, a primary that is not empty once stripped is first, the chain built
\* from a chain's own entries is that chain, and primary A with fallbacks
\* "B, A,B,C" gives [A, B, C].
C21_ChainDedupesInOrder ==
  ChainBuilt =>
    LET chain == run.chain
    IN /\ \A i, j \in 1..Len(chain) : i # j => chain[i] # chain[j]
       /\ \A i \in 1..Len(chain) : chain[i] # <<>> /\ InSeq(chain[i], ChainEntries)
       /\ \A i \in 1..Len(ChainEntries) :
            ChainEntries[i] # <<>> => InSeq(ChainEntries[i], chain)
       /\ \A i, j \in 1..Len(chain) :
            i < j => FirstSeen(chain[i]) < FirstSeen(chain[j])
       /\ strip(run.anthropic_model) # <<>> => chain[1] = strip(run.anthropic_model)
       /\ chain # <<>> => model_chain(Head(chain), JoinComma(Tail(chain))) = chain
       /\ (/\ run.anthropic_model = <<"A">>
           /\ run.anthropic_fallback_models = <<"B", ",", " ", "A", ",", "B", ",", "C">>)
            => chain = << <<"A">>, <<"B">>, <<"C">> >>

\* C21 witness: the chain of the example, built from fallbacks that repeat
\* the primary and a fallback
C21_Witness ==
  /\ ChainBuilt
  /\ run.anthropic_model = <<"A">>
  /\ Len(split(run.anthropic_fallback_models)) = 4
  /\ run.chain = << <<"A">>, <<"B">>, <<"C">> >>

(***************************************************************************)
(* Backoff delays.                                                         *)
(***************************************************************************)
\* the run is in a backoff sleep: the delay it sleeps, and the base and the
\* jitter of the provider whose retry loop sleeps
Sleeping == run.pc \in {"search_sleep", "llm_sleep"}
SleptDelay == run.until - run.t
SleepBase ==
  IF run.pc = "llm_sleep" THEN LLM_BACKOFF_BASE_SECONDS
  ELSE SERPER_BACKOFF_BASE_SECONDS
SleepJitter ==
  IF run.pc = "llm_sleep" THEN LLM_BACKOFF_JITTER_SECONDS
  ELSE SERPER_BACKOFF_JITTER_SECONDS

\* C22 as stated: base * 2^(n-1) <= delay(n) < base * 2^(n-1) + jitter, for
\* the delays of both retry loops.
C22_DelayBelowUpperBound ==
  Sleeping
  => /\ SleepBase * 2^(run.attempt - 1) <= SleptDelay
     /\ SleptDelay < SleepBase * 2^(run.attempt - 1) + SleepJitter

\* C22 amended: base * 2^(n-1) <= delay(n) <= base * 2^(n-1) + jitter, for
\* the delay every backoff sleep of both retry loops is given and for every
\* attempt number n >= 1 and every value of the jitter term.
C22_DelayWithinBounds ==
  /\ Sleeping
       => /\ SleepBase * 2^(run.attempt - 1) <= SleptDelay
          /\ SleptDelay <= SleepBase * 2^(run.attempt - 1) + SleepJitter
  /\ \A n \in 1..MaxAttemptNumber :
       /\ \A j \in Jitters(LLM_BACKOFF_JITTER_SECONDS) :
            /\ LLM_BACKOFF_BASE_SECONDS * 2^(n - 1) <= retry_delay_seconds(n, j)
            /\ retry_delay_seconds(n, j)
                 <= LLM_BACKOFF_BASE_SECONDS * 2^(n - 1) + LLM_BACKOFF_JITTER_SECONDS
       /\ \A j \in Jitters(SERPER_BACKOFF_JITTER_SECONDS) :
            /\ SERPER_BACKOFF_BASE_SECONDS * 2^(n - 1)
                 <= serper_retry_delay_seconds(n, j)
            /\ serper_retry_delay_seconds(n, j)
                 <= SERPER_BACKOFF_BASE_SECONDS * 2^(n - 1)
                    + SERPER_BACKOFF_JITTER_SECONDS

\* C22 witness: the search loop sleeps after its second attempt for the
\* longest delay, base * 2 + jitter
C22_Witness ==
  /\ run.pc = "search_sleep"
  /\ run.attempt = 2
  /\ SleptDelay = SERPER_BACKOFF_BASE_SECONDS * 2 + SERPER_BACKOFF_JITTER_SECONDS
  /\ SERPER_BACKOFF_JITTER_SECONDS > 0

(***************************************************************************)
(* The usage window.                                                       *)
(***************************************************************************)
\* the latest operation was an enrich or batch request whose key was
\* validated (no proxy secret let it pass) and is an account's
Validated ==
  /\ last.op \in {"enrich_endpoint", "batch_enrich_endpoint"}
  /\ Truthy(rapidSecret) /\ last.secret # rapidSecret
  /\ last.api_key \in DOMAIN accounts
  /\ last.resets_before >= 0
\* the increments the request made after the validation
Charged == IF last.started THEN last.items ELSE 0
ValidatedAccount == accounts[last.api_key]

\* C23 as stated: the first read after resets_at has passed sets
\* requests_used to 0 and advances resets_at by 30 days (to resets_at + 30
\* days); a read before resets_at changes neither field.
C23_ResetAdvancesByWindow ==
  Validated
  => IF now > last.resets_before
       THEN /\ ValidatedAccount.requests_used = Charged
            /\ ValidatedAccount.resets_at = last.resets_before + RESET_WINDOW
       ELSE /\ ValidatedAccount.requests_used = last.used_before + Charged
            /\ ValidatedAccount.resets_at = last.resets_before

\* C23 amended: the first validation of a key made later than resets_at sets
\* requests_used to 0 and sets resets_at to 30 days after the time of the
\* validation, which is later than the time of the validation, so that the
\* next validation does not reset again; a validation at or before resets_at
\* changes neither field.
C23_ResetRestartsWindow ==
  Validated
  => IF now > last.resets_before
       THEN /\ ValidatedAccount.requests_used = Charged
            /\ ValidatedAccount.resets_at = now + RESET_WINDOW
            /\ ValidatedAccount.resets_at > now
       ELSE /\ ValidatedAccount.requests_used = last.used_before + Charged
            /\ ValidatedAccount.resets_at = last.resets_before

\* C23 witness: an account that had used its whole quota is validated after
\* resets_at has passed and is admitted again
C23_Witness ==
  /\ Validated
  /\ last.op = "enrich_endpoint"
  /\ now > last.resets_before
  /\ last.used_before = QUOTA_FREE
  /\ last.started
  /\ ValidatedAccount.requests_used = 1

(***************************************************************************)
(* Accounts and emails.                                                    *)
(***************************************************************************)
AccountsOf(email) == {k \in DOMAIN accounts : accounts[k].email = email}

\* C24: after any sequence of registrations and webhooks at most one account
\* exists per email, and a registration answers with the account of its
\* email, the one that existed if there was one.
C24_OneAccountPerEmail ==
  /\ \A email \in Emails : Cardinality(AccountsOf(email)) <= 1
  /\ last.op = "register_endpoint"
       => /\ AccountsOf(last.email) = {last.api_key}
          /\ last.plan = accounts[last.api_key].plan

\* C24 witness: an email whose account a checkout-completed webhook upgraded
\* registers again and is answered with that account, the only one
C24_Witness ==
  /\ last.op = "register_endpoint"
  /\ last.plan = "basic"
  /\ AccountsOf(last.email) = {last.api_key}
  /\ accounts[last.api_key].stripe_subscription_id = "sub1"

(***************************************************************************)
(* Accounts are kept.                                                      *)
(***************************************************************************)
\* a store that holds the accounts of the current one under the same keys
\* for the same emails
KeepsAccounts(db) ==
  /\ DOMAIN accounts \subseteq DOMAIN db.acc
  /\ \A k \in DOMAIN accounts : db.acc[k].email = accounts[k].email
  /\ \A email \in DOMAIN emailIdx :
       email \in DOMAIN db.email /\ db.email[email] = emailIdx[email]

\* validation and usage increment of any key keep the accounts
C25_ReadsKeep ==
  \A api_key \in ApiKeyArgs \ {NoKey} :
    /\ KeepsAccounts(validate_api_key(Db, api_key).db)
    /\ KeepsAccounts(increment_usage(Db, api_key))

\* a step of any operation keeps every account under its key with its email,
\* and the key an email is bound to stays the same
C25_Step ==
  /\ \A k \in DOMAIN accounts :
       k \in DOMAIN accounts' /\ accounts'[k].email = accounts[k].email
  /\ \A email \in Emails :
       /\ AccountsOf(email) # {} => AccountsOf(email)' = AccountsOf(email)
       /\ email \in DOMAIN emailIdx
            => email \in DOMAIN emailIdx' /\ emailIdx'[email] = emailIdx[email]

\* C25: no operation ever removes an account, and the API key bound to an
\* email never changes once the account exists.
C25_AccountsKept == []C25_ReadsKeep /\ [][C25_Step]_vars

\* C25 witness: an account that was upgraded and downgraded again is still
\* there, next to the account of the other email
C25_Witness ==
  /\ last.op = "stripe_webhook"
  /\ last.etype = EvDeleted
  /\ last.handler = 1
  /\ \E k \in DOMAIN accounts :
       /\ accounts[k].email = "a@x"
       /\ accounts[k].plan = "free"
       /\ accounts[k].stripe_customer_id = "cus1"
  /\ AccountsOf("b@x") # {}

(***************************************************************************)
(* Admission to the enrichment endpoints.                                  *)
(***************************************************************************)
\* the request carried the configured proxy secret
CarriedProxySecret == Truthy(rapidSecret) /\ last.secret = rapidSecret
\* what the request's account had left when the call began, the window
\* being reopened by a validation made after resets_at
UsedAtAdmission == IF now > last.resets_before THEN 0 ELSE last.used_before
LeftAtAdmission == accounts[last.api_key].requests_limit - UsedAtAdmission
CarriedAccountKey == last.api_key \in DOMAIN accounts /\ last.resets_before >= 0

\* C26 as stated (SpecApi): enrich_data is reached only by a request with
\* the configured proxy secret or with the key of an account that has quota
\* left, and a request with no API key and no matching proxy secret is
\* answered 401 without starting an enrichment, whether or not a proxy
\* secret is configured.
C26_EnrichNeedsSecretOrKey ==
  last.op = "enrich_endpoint"
  => /\ last.started
          => \/ CarriedProxySecret
             \/ CarriedAccountKey /\ LeftAtAdmission > 0
     /\ (last.api_key = NoKey /\ ~CarriedProxySecret)
          => (last.http = 401 /\ ~last.started)

\* C27 as stated (SpecBatch): a batch of N items with the key of an account
\* is processed only when at least N requests remain and then leaves
\* requests_used N higher; a batch answered 401 or 429 leaves requests_used
\* as it was.
C27_BatchCountsItems ==
  (last.op = "batch_enrich_endpoint" /\ CarriedAccountKey)
  => IF last.started
       THEN /\ LeftAtAdmission >= last.items
            /\ accounts[last.api_key].requests_used = UsedAtAdmission + last.items
       ELSE /\ last.http \in {401, 429}
            /\ accounts[last.api_key].requests_used = last.used_before

(***************************************************************************)
(* The order of the model calls.                                           *)
(***************************************************************************)
\* the number of calls made when attempt a of model m has been made
CallsUpTo(m, a) == ((m - 1) * LLM_RETRY_ATTEMPTS) + a

\* C28: models are attempted in chain order without return to an earlier
\* model, each at most LLM_RETRY_ATTEMPTS times with attempt numbers
\* 1, 2, ... without gaps, and at most chain length x LLM_RETRY_ATTEMPTS
\* model calls are made.
C28_ChainOrderAndBudget ==
  /\ \A i \in 1..Len(run.hist) :
       /\ run.hist[i].model \in 1..Len(run.chain)
       /\ run.hist[i].attempt \in 1..LLM_RETRY_ATTEMPTS
  /\ run.model_calls = 0 <=> run.hist = << >>
  /\ run.model_calls = 1
       => (run.hist[1].model = 1 /\ run.hist[1].attempt = 1)
  /\ Len(run.hist) = 2
       => \/ /\ run.hist[2].model = run.hist[1].model
             /\ run.hist[2].attempt = run.hist[1].attempt + 1
          \/ /\ run.hist[2].model = run.hist[1].model + 1
             /\ run.hist[2].attempt = 1
  /\ run.hist # << >>
       => run.model_calls <= CallsUpTo(LatestCall.model, LatestCall.attempt)
  /\ run.model_calls <= Len(run.chain) * LLM_RETRY_ATTEMPTS
  /\ run.pc \in {"llm", "llm_sleep"}
       => /\ run.model \in 1..Len(run.chain)
          /\ run.attempt \in 1..LLM_RETRY_ATTEMPTS
          /\ run.pc = "llm_sleep" => run.attempt < LLM_RETRY_ATTEMPTS

\* C28 witness: the second model of a chain of two gets its last attempt
\* after the first model got all of its own
C28_Witness ==
  /\ Len(run.chain) = 2
  /\ Len(run.hist) = 2
  /\ run.hist[1].model = 2 /\ run.hist[1].attempt = LLM_RETRY_ATTEMPTS - 1
  /\ run.hist[2].model = 2 /\ run.hist[2].attempt = LLM_RETRY_ATTEMPTS
  /\ run.model_calls = 2 * LLM_RETRY_ATTEMPTS

(***************************************************************************)
(* Per-call timeouts and backoff sleeps of the model loop.                 *)
(***************************************************************************)
\* the run was ended from outside the loop: a deadline or the caller
EndedFromOutside == run.pc = "done" /\ (run.cancelled \/ run.expired # {})
\* the backoff sleep after the latest call, computed from its attempt number
SleepsAfterLatest ==
  /\ run.pc = "llm_sleep"
  /\ run.model = LatestCall.model
  /\ run.attempt = LatestCall.attempt
  /\ \E j \in Jitters(LLM_BACKOFF_JITTER_SECONDS) :
       SleptDelay = (LLM_BACKOFF_BASE_SECONDS * 2^(LatestCall.attempt - 1)) + j
RetriesAfterLatest ==
  /\ run.pc = "llm"
  /\ run.model = LatestCall.model
  /\ run.attempt = LatestCall.attempt + 1
AdvancesAfterLatest ==
  /\ run.pc = "llm"
  /\ run.model = LatestCall.model + 1
  /\ run.attempt = 1

\* C30: a per-call timeout is followed by a retry of the same model when
\* attempts remain and by the next model (or UpstreamServiceUnavailableError
\* at the end of the chain) when none does; a backoff sleep computed from the
\* failed attempt's number precedes every retry of the same model, and no
\* sleep precedes the advance to the next model or a raise.
C30_TimeoutRetriesWithBackoff ==
  run.hist # << >>
  => /\ run.sleeps
          = SleepsBefore(LatestCall.model, LatestCall.attempt)
            + (IF FailedRetryably(LatestCall)
                  /\ LatestCall.attempt < LLM_RETRY_ATTEMPTS THEN 1 ELSE 0)
     /\ run.pc = "llm_sleep" => SleepsAfterLatest
     /\ LatestCall.how = "timeout"
          => IF LatestCall.attempt < LLM_RETRY_ATTEMPTS
               THEN SleepsAfterLatest \/ RetriesAfterLatest \/ EndedFromOutside
             ELSE IF LatestCall.model < Len(run.chain)
               THEN AdvancesAfterLatest \/ EndedFromOutside
             ELSE /\ run.pc = "done"
                  /\ run.result.type = "UpstreamServiceUnavailableError"

\* C30 witness: the second attempt of a model timed out and the loop sleeps
\* its second backoff before the third attempt
C30_Witness ==
  /\ run.hist # << >>
  /\ LatestCall.how = "timeout"
  /\ LatestCall.attempt = 2
  /\ run.pc = "llm_sleep"
  /\ run.sleeps = 2
  /\ SleptDelay >= LLM_BACKOFF_BASE_SECONDS * 2

(***************************************************************************)
(* The model loop ends.                                                    *)
(***************************************************************************)
\* the run is over and nothing outside the model loop ended it
LoopEnded == run.pc = "done" /\ ~EndedFromOutside
LoopNeverEntered == run.chain = << >> \/ LLM_RETRY_ATTEMPTS < 1

\* the states the model loop ends in: a response, a fatal error of the
\* latest call, or UpstreamServiceUnavailableError after every attempt of
\* every model; without a model or without an attempt it is the last, and
\* no model call is made
C29_Endings ==
  /\ LoopEnded
       => \/ /\ run.hist # << >>
             /\ LatestCall.how = "ok"
             /\ run.result.type = "result"
          \/ /\ run.hist # << >>
             /\ LatestCall.how = "fatal"
             /\ run.result.type \notin {"result", "UpstreamServiceUnavailableError"}
          \/ /\ run.result.type = "UpstreamServiceUnavailableError"
             /\ run.provider = "LLM provider"
             /\ run.model_calls = Len(run.chain) * LLM_RETRY_ATTEMPTS
  /\ LoopNeverEntered
       => /\ run.model_calls = 0
          /\ run.pc \notin {"llm", "llm_sleep"}
          /\ LoopEnded => run.result.type = "UpstreamServiceUnavailableError"

\* C29: every run of the model loop ends, for every pattern of provider
\* outcomes, when every call and every backoff sleep completes: in a
\* response, a fatal error or UpstreamServiceUnavailableError; for an empty
\* chain and for LLM_RETRY_ATTEMPTS = 0 it ends in
\* UpstreamServiceUnavailableError without a model call.
C29_LoopTerminates == <>(run.pc = "done") /\ []C29_Endings

\* C29 witness: with LLM_RETRY_ATTEMPTS = 0 and a chain of two models the
\* loop has ended in UpstreamServiceUnavailableError without a model call
C29_Witness ==
  /\ LoopEnded
  /\ LLM_RETRY_ATTEMPTS = 0
  /\ Len(run.chain) = 2
  /\ run.model_calls = 0
  /\ run.result.type = "UpstreamServiceUnavailableError"

(***************************************************************************)
(* The retry loop of a search call.                                        *)
(***************************************************************************)
SearchRequested == run.search_last.call > 0
\* the search call of the latest request makes no further request
SearchCallOver ==
  /\ run.pc # "search_sleep"
  /\ run.pc = "search" => run.call > run.search_last.call
SearchSleepsAfterLatest ==
  /\ run.pc = "search_sleep"
  /\ run.call = run.search_last.call
  /\ run.attempt = run.search_last.attempt
  /\ run.requests = run.search_last.attempt
SearchRetriesAfterLatest ==
  /\ run.pc = "search"
  /\ run.call = run.search_last.call
  /\ run.attempt = run.search_last.attempt + 1
  /\ run.requests = run.search_last.attempt

\* C31: a search call makes at most SERPER_RETRY_ATTEMPTS requests; a
\* retryable status, a timeout or a connection/network error is retried after
\* a backoff sleep while attempts remain and its error is raised on the last
\* attempt; an HTTP error status outside the retryable set is raised at once
\* and the call makes no further request.
C31_SearchRetryBudget ==
  /\ run.requests <= SERPER_RETRY_ATTEMPTS
  /\ run.pc \in {"search", "search_sleep"}
       => run.attempt \in 1..SERPER_RETRY_ATTEMPTS
  /\ run.pc = "search_sleep" => SearchSleepsAfterLatest
  /\ SearchRequested
       => /\ run.search_last.attempt \in 1..SERPER_RETRY_ATTEMPTS
          /\ run.search_last.how = "transient"
               => IF run.search_last.attempt < SERPER_RETRY_ATTEMPTS
                    THEN \/ SearchSleepsAfterLatest
                         \/ SearchRetriesAfterLatest
                         \/ EndedFromOutside
                    ELSE SearchCallOver /\ run.search_exhausted
          /\ run.search_last.how = "status" => SearchCallOver
  /\ \A attempt \in 1..SERPER_RETRY_ATTEMPTS, outcome \in SearchOutcomes :
       LET s == serper_search_attempt(attempt, outcome, NoError)
       IN /\ (SearchTransient(outcome) /\ attempt < SERPER_RETRY_ATTEMPTS)
               => s.do = "sleep"
          /\ (outcome.kind = "response" /\ outcome.status >= 400
              /\ (outcome.status \notin SERPER_RETRYABLE_STATUS_CODES
                  \/ attempt = SERPER_RETRY_ATTEMPTS))
               => /\ s.do = "raise"
                  /\ s.exc.type = "HTTPStatusError"
                  /\ s.exc.status = outcome.status
          /\ (outcome.kind = "raise" /\ attempt = SERPER_RETRY_ATTEMPTS)
               => (s.do = "raise" /\ s.exc = outcome.exc)

\* C31 witness: an earlier search call used up its three attempts, and the
\* second call ended on a status outside the retryable set at its second
\* attempt
C31_Witness ==
  /\ run.search_last.call = 2
  /\ run.search_last.how = "status"
  /\ run.search_last.attempt = 2
  /\ run.search_exhausted
  /\ SearchCallOver

(***************************************************************************)
(* The classifiers of the two providers.                                   *)
(***************************************************************************)
Classified == run.pc = "classified"
\* the messages of the inputs that mention overloaded, rate limit or
\* error code 529
MentionsOverload ==
  run.attempt_exc.msg \in {MSG_OVERLOADED, MSG_RATE_LIMITED, MSG_ERROR_CODE_529}

\* C32: the model-provider classifier answers retryable for exactly the
\* timeout, connection, rate-limit and internal-server errors whatever their
\* status, the other status-coded errors with a status in
\* {408,409,425,429,500,502,503,504,529} and the wrapped validation-retry
\* exceptions whose text mentions overloaded, rate limit or error code 529;
\* the search set is {408,425,429,500,502,503,504}, so a search answered 409
\* or 529 is not retried.
C32_ClassifierExact ==
  /\ Classified
       => (run.retryable
             <=> \/ run.attempt_exc.type \in
                      {"APITimeoutError", "APIConnectionError", "RateLimitError",
                       "InternalServerError"}
                 \/ /\ run.attempt_exc.type \in
                         {"APIStatusError", "BadRequestError", "ConflictError"}
                    /\ run.attempt_exc.status \in
                         {408, 409, 425, 429, 500, 502, 503, 504, 529}
                 \/ /\ run.attempt_exc.type = "InstructorRetryException"
                    /\ MentionsOverload)
  /\ SERPER_RETRYABLE_STATUS_CODES = {408, 425, 429, 500, 502, 503, 504}
  /\ \A status \in {409, 529} :
       /\ is_retryable_llm_error(StatusExc("APIStatusError", status))
       /\ serper_search_attempt(1, Response(status, FALSE), NoError).do = "raise"

\* C32 witness: a conflict error with status 409 was classified retryable
C32_Witness ==
  /\ Classified
  /\ run.attempt_exc.type = "ConflictError"
  /\ run.attempt_exc.status = 409
  /\ run.attempt_exc.msg = NoText
  /\ run.retryable

(***************************************************************************)
(* The search phase before the model.                                      *)
(***************************************************************************)
SearchCallsOfRun == search_calls(run.data_type, run.raw_data)
\* the run ended in UpstreamServiceUnavailableError raised for a search call
SearchEndedUpstream ==
  /\ run.pc = "done"
  /\ run.result.type = "UpstreamServiceUnavailableError"
  /\ run.provider = "Search provider"
\* a tool's formatted error string
ErrorText(text) == startswith(text, <<"E", "r", "r", "o", "r", ":">>)
\* a search call that ends in UpstreamServiceUnavailableError is the last
\* one issued, and no model call follows
UpstreamEndsSearch ==
  SearchEndedUpstream
  => /\ Len(run.searches) = run.search_last.call
     /\ Len(run.search_results) = run.search_last.call - 1
     /\ run.model_calls = 0

\* C33 as stated: when the first search call ends in
\* UpstreamServiceUnavailableError the second is never issued and the model
\* is never invoked; the model is invoked only after every search call has
\* returned a result that is no error.
C33_ModelAfterErrorFreeSearches ==
  /\ UpstreamEndsSearch
  /\ ModelInvoked
       => /\ Len(run.search_results) = Len(SearchCallsOfRun)
          /\ \A i \in 1..Len(run.search_results) :
               ~ErrorText(run.search_results[i].text)

\* C33 amended: when a search call ends in UpstreamServiceUnavailableError
\* no later search call is issued and the model is never invoked; the model
\* is invoked only after every search call has returned a text that is not
\* an upstream failure: a result list, a no-results message, or an error
\* string without a transient-failure marker.
C33_ModelAfterEverySearchReturned ==
  /\ UpstreamEndsSearch
  /\ ModelInvoked
       => /\ Len(run.search_results) = Len(SearchCallsOfRun)
          /\ Len(run.searches) = Len(SearchCallsOfRun)
          /\ \A i \in 1..Len(run.search_results) :
               \/ ~ErrorText(run.search_results[i].text)
               \/ \A marker \in {TXT_RATE_LIMIT, TXT_TIMED_OUT, TXT_STATUS_5,
                                 TXT_STATUS_429, TXT_CONNECTERROR} :
                    ~contains(lower(run.search_results[i].text), marker)

\* C33 witness: the first of two search calls ended in
\* UpstreamServiceUnavailableError; the second was not issued, no model call
C33_Witness ==
  /\ SearchEndedUpstream
  /\ Len(SearchCallsOfRun) = 2
  /\ run.search_last.call = 1
  /\ Len(run.searches) = 1
  /\ run.model_calls = 0
  /\ ~EndedFromOutside

(***************************************************************************)
(* A webhook delivery whose handler raises.                                *)
(***************************************************************************)
\* the step is a delivery whose mutating handler raised
RaisingDelivery ==
  /\ last'.op = "stripe_webhook"
  /\ last'.handler = 1
  /\ last'.raised # ""
\* the delivery left the accounts and their indices as they were and did
\* not mark its event id
C34_Step ==
  RaisingDelivery
  => /\ accounts' = accounts
     /\ emailIdx' = emailIdx
     /\ subIdx' = subIdx
     /\ Truthy(last'.event_id)
          => ~is_webhook_event_processed(eventMarks', last'.event_id).hit
\* a delivery of an event whose handler raises is never taken for a duplicate
C34_Redelivered ==
  \A event \in feed :
    (event.type = EvCompleted /\ Truthy(event.plan) /\ event.plan \notin PlanNames)
    => LET r == handle_webhook(event, "event")
       IN r.reason # "duplicate_event" /\ r.handler = 1 /\ r.raised # ""

\* C34: if the mutating handler of a webhook event raises, the event id is
\* not marked processed and the stored accounts are left exactly as they
\* were before the call, so a redelivery of the event is processed again.
C34_FailedHandlerLeavesNoTrace == []C34_Redelivered /\ [][C34_Step]_vars

(***************************************************************************)
(* The checkout cache and the provider call.                               *)
(***************************************************************************)
\* the step is a create_checkout_session call whose provider call raised
RaisingCheckout == last'.calls = 1 /\ last'.raised = "StripeError"
\* the call wrote no cache entry, and its key has none afterwards
C35_Step ==
  RaisingCheckout
  => /\ last'.invoked = 1
     /\ \A k \in DOMAIN checkoutCache' :
          k \in DOMAIN checkoutCache /\ checkoutCache'[k] = checkoutCache[k]
     /\ last'.idem \notin DOMAIN checkoutCache'
\* after a call whose provider call raised, a call with the same key goes to
\* the provider
C35_NextCallInvokes ==
  (last.calls = 1 /\ last.raised = "StripeError" /\ Truthy(last.idem))
  => \A email \in Emails, plan \in PlanArgs, stripe_ok \in BOOLEAN :
       ValidPaidPlan(plan)
       => create_checkout_session(email, plan, last.idem, stripe_ok).invoked = 1
\* every cache entry holds the URL the latest successful provider call for
\* its key returned, with the expiry set at that call
C35_EntriesFromProvider ==
  \A k \in DOMAIN checkoutCache :
    /\ k \in DOMAIN ckWrite
    /\ checkoutCache[k].checkout_url = ckWrite[k].url
    /\ checkoutCache[k].checkout_url # NoUrl
    /\ checkoutCache[k].expires_at = ckWrite[k].t + CHECKOUT_IDEMPOTENCY_TTL_SECONDS

\* C35: if the provider call of create_checkout_session raises, nothing is
\* written to the cache for that key, so a later call with the key contacts
\* the provider again; a cache entry exists only after a provider call for
\* its key has returned a URL, and it holds that URL.
C35_FailedCallNotCached ==
  /\ [](C35_NextCallInvokes /\ C35_EntriesFromProvider)
  /\ [][C35_Step]_vars

\* C35 witness: a key whose earlier URL has expired was used in a call whose
\* provider call raised, and the key has no entry
C35_Witness ==
  /\ last.calls = 1
  /\ last.raised = "StripeError"
  /\ last.invoked = 1
  /\ last.idem \in DOMAIN ckWrite
  /\ last.idem \notin DOMAIN checkoutCache

(***************************************************************************)
(* The stored limit and the plan's quota.                                  *)
(***************************************************************************)
\* C36: in every reachable state, each account's requests_limit equals the
\* monthly request quota of the account's current plan.
C36_LimitIsQuotaOfPlan ==
  \A k \in DOMAIN accounts :
    /\ accounts[k].plan \in PlanNames
    /\ accounts[k].requests_limit = requests_per_month(accounts[k].plan)

(***************************************************************************)
(* Usage and limit.                                                        *)
(***************************************************************************)
\* C37: in every reachable state, each account's requests_used is at most
\* its requests_limit.
C37_UsedWithinLimit ==
  \A k \in DOMAIN accounts :
    accounts[k].requests_used <= accounts[k].requests_limit

(***************************************************************************)
(* The checkout cache is keyed by the idempotency key alone.               *)
(***************************************************************************)
\* the key has a live record
LiveRecord(k) ==
  k \in DOMAIN checkoutCache /\ ttl_live(checkoutCache[k].expires_at)
\* whatever the email and the plan, a call with a key that has a live record
\* returns the record's URL without a provider call when the plan is a valid
\* paid plan, and raises ValueError without reading the cache otherwise
C38_AnyCallOnLiveKey ==
  \A k \in IdemKeys :
    LiveRecord(k)
    => \A email \in Emails, plan \in PlanArgs, stripe_ok \in BOOLEAN :
         LET r == create_checkout_session(email, plan, k, stripe_ok)
         IN IF ValidPaidPlan(plan)
              THEN /\ r.raised = ""
                   /\ r.url = checkoutCache[k].checkout_url
                   /\ r.url = ckWrite[k].url
                   /\ r.invoked = 0
                   /\ r.cache = checkoutCache
              ELSE /\ r.raised = "ValueError"
                   /\ r.url = NoUrl
                   /\ r.invoked = 0
                   /\ r.cache = checkoutCache
\* a call made with a key that has a live record
C38_Step ==
  (last'.calls = 1 /\ Truthy(last'.idem) /\ LiveRecord(last'.idem))
  => /\ providerCalls' = providerCalls
     /\ checkoutCache' = checkoutCache
     /\ last'.invoked = 0
     /\ IF last'.valid_plan
          THEN /\ last'.raised = ""
               /\ last'.url = last'.write_url
               /\ last'.url = checkoutCache[last'.idem].checkout_url
          ELSE last'.raised = "ValueError" /\ last'.url = NoUrl

\* C38: while a key's record is live, a create_checkout_session call with
\* that key and any valid paid plan returns the URL produced for the first
\* request without contacting the provider, even when its email or plan
\* differ from the first request's; an invalid plan is rejected even for a
\* cached key.
C38_CacheKeyedByKeyAlone == []C38_AnyCallOnLiveKey /\ [][C38_Step]_vars

\* C38 witness: a call with another email and another plan than the call that
\* obtained the URL was answered with that URL from the cache
C38_Witness ==
  /\ last.calls = 1
  /\ last.raised = ""
  /\ last.invoked = 0
  /\ last.url # NoUrl
  /\ last.url = last.write_url
  /\ Truthy(last.write_plan) /\ last.plan # last.write_plan
  /\ Truthy(last.write_email) /\ last.email # last.write_email

====
